---------------------------- MODULE Spec2Model ----------------------------
(***************************************************************************)
(* The opportunities endpoint of the dashboard: the cascade of access      *)
(* methods (service account, API key, public CSV export), the tabular text *)
(* parser, the record mapper, the column resolver and the business         *)
(* classifier.                                                             *)
(*                                                                         *)
(* The repository holds several revisions of the route handler side by     *)
(* side.  Each one is a value of the variable `variant`:                   *)
(*   "R1"  src/app/api/salesforce/route.ts, lines 1-365                    *)
(*   "R2"  src/app/api/salesforce/route.ts, lines 366-665                  *)
(*   "U0"  src/unnamed/part_000                                            *)
(*   "U1d" src/unnamed/part_001, lines 943-1354                            *)
(*   "U2"  src/unnamed/part_002                                            *)
(*                                                                         *)
(* A JavaScript string is a sequence of one-character strings, so that     *)
(* toLowerCase, trim, startsWith and includes are computed, not assumed.   *)
(***************************************************************************)
EXTENDS Integers, Sequences, FiniteSets, TLC

----------------------------------------------------------------------------
(* String literals of the source.                                          *)

sStage == <<"S","t","a","g","e">>
sStageName == <<"S","t","a","g","e","N","a","m","e">>
sStage_Name == <<"S","t","a","g","e"," ","N","a","m","e">>
sAccessMethod == <<"A","c","c","e","s","s"," ","M","e","t","h","o","d">>
sAccess_Method_L__c == <<"A","c","c","e","s","s","_","M","e","t","h","o","d","_","L","_","_","c">>
sAccessMethodL == <<"A","c","c","e","s","s"," ","M","e","t","h","o","d"," ","(","L",")">>
sAccessMethodLPlain == <<"A","c","c","e","s","s"," ","M","e","t","h","o","d"," ","L">>
sAccess_Method == <<"A","c","c","e","s","s","_","M","e","t","h","o","d">>
sAccessMethodJoined == <<"A","c","c","e","s","s","M","e","t","h","o","d">>
sAccessMethodOpp == <<"A","c","c","e","s","s"," ","M","e","t","h","o","d"," ","(","O","p","p",")">>
sAccess_Method_Opp__c == <<"A","c","c","e","s","s","_","M","e","t","h","o","d","_","O","p","p","_","_","c">>
sProductModules == <<"P","r","o","d","u","c","t"," ","m","o","d","u","l","e","s">>
sOpportunityName == <<"O","p","p","o","r","t","u","n","i","t","y"," ","N","a","m","e">>
sName == <<"N","a","m","e">>
sOpportunity == <<"O","p","p","o","r","t","u","n","i","t","y">>
sAccountName == <<"A","c","c","o","u","n","t"," ","N","a","m","e">>
sCloseDate == <<"C","l","o","s","e"," ","D","a","t","e">>
sAmount == <<"A","m","o","u","n","t">>
sOpportunityOwner == <<"O","p","p","o","r","t","u","n","i","t","y"," ","O","w","n","e","r">>
kwDueDiligence == <<"d","u","e"," ","d","i","l","i","g","e","n","c","e">>
kwStandingApart == <<"s","t","a","n","d","i","n","g"," ","a","p","a","r","t">>
kwApi == <<"a","p","i">>
kwDataFeed == <<"d","a","t","a"," ","f","e","e","d">>
kwDatafeed == <<"d","a","t","a","f","e","e","d">>
sLt == <<"<">>
sLtBang == <<"<","!">>
sLtHtml == <<"<","h","t","m","l">>

----------------------------------------------------------------------------
(* String.prototype operations.                                            *)

UpperChars == <<"A","B","C","D","E","F","G","H","I","J","K","L","M",
                "N","O","P","Q","R","S","T","U","V","W","X","Y","Z">>
LowerChars == <<"a","b","c","d","e","f","g","h","i","j","k","l","m",
                "n","o","p","q","r","s","t","u","v","w","x","y","z">>

\* The byte-order mark U+FEFF, one character.
BOM == "BOM"

\* the lower-case letter of each upper-case letter
lowerOf == [i \in 1..26 |-> LowerChars[i]]
upperIndex == [c \in {UpperChars[i] : i \in 1..26} |->
                  CHOOSE i \in 1..26 : UpperChars[i] = c]

toLowerCaseChar(c) ==
    IF c \in DOMAIN upperIndex THEN lowerOf[upperIndex[c]] ELSE c

toLowerCase(s) == [i \in 1..Len(s) |-> toLowerCaseChar(s[i])]

\* White space as String.prototype.trim sees it.
IsSpace(c) == c \in {" ", "\n", "\t", "\r", BOM}

SetMin(S) == CHOOSE x \in S : \A y \in S : x <= y

trim(s) ==
    IF \A i \in 1..Len(s) : IsSpace(s[i]) THEN <<>>
    ELSE LET first == CHOOSE i \in 1..Len(s) :
                          ~IsSpace(s[i]) /\ \A j \in 1..(i - 1) : IsSpace(s[j])
             last == CHOOSE i \in 1..Len(s) :
                         ~IsSpace(s[i]) /\ \A j \in (i + 1)..Len(s) : IsSpace(s[j])
         IN  SubSeq(s, first, last)

startsWith(s, p) == Len(p) <= Len(s) /\ SubSeq(s, 1, Len(p)) = p

includes(s, p) ==
    \E i \in 1..(Len(s) - Len(p) + 1) : SubSeq(s, i, i + Len(p) - 1) = p

\* lower-cased and trimmed, as both sides of every key comparison are
norm(s) == trim(toLowerCase(s))

----------------------------------------------------------------------------
(* A Record<string,string>: its entries in insertion order, keys unique.   *)
(* (Header labels of the inputs are never integer-like, so Object.keys is  *)
(* the insertion order.)                                                   *)

keysOf(row) == [i \in 1..Len(row) |-> row[i][1]]

hasKey(row, k) == \E i \in 1..Len(row) : row[i][1] = k

\* row[k] = v
setKey(row, k, v) ==
    IF hasKey(row, k)
    THEN [i \in 1..Len(row) |-> IF row[i][1] = k THEN <<k, v>> ELSE row[i]]
    ELSE Append(row, <<k, v>>)

\* null, or a value
Null == [isNull |-> TRUE, val |-> <<>>]
Some(x) == [isNull |-> FALSE, val |-> x]

\* headers.forEach((header, idx) => { row[header] = values[idx] || "" })
RECURSIVE zipRow(_, _, _, _, _)
zipRow(headers, values, idx, skipEmptyHeader, acc) ==
    IF idx > Len(headers) THEN acc
    ELSE zipRow(headers, values, idx + 1, skipEmptyHeader,
                IF skipEmptyHeader /\ headers[idx] = <<>>
                THEN acc
                ELSE setKey(acc, headers[idx],
                            IF idx <= Len(values) THEN values[idx] ELSE <<>>))

\* rowsToRecords of route.ts: `raw` may be undefined (Null)
rowsToRecords(raw) ==
    IF raw.isNull \/ Len(raw.val) < 2 THEN <<>>
    ELSE [i \in 1..(Len(raw.val) - 1) |->
             zipRow(raw.val[1], raw.val[i + 1], 1, FALSE, <<>>)]


----------------------------------------------------------------------------
(* Tabular text parser.                                                    *)

\* text.replace(/^﻿/, "").replace(/\r\n/g, "\n").replace(/\r/g, "\n")
cleanText(text) ==
    LET t == IF Len(text) > 0 /\ text[1] = BOM THEN Tail(text) ELSE text
        marked == [i \in 1..Len(t) |->
                      IF t[i] = "\r" /\ i < Len(t) /\ t[i + 1] = "\n" THEN "drop"
                      ELSE IF t[i] = "\r" THEN "\n" ELSE t[i]]
        Kept(c) == c # "drop"
    IN  SelectSeq(marked, Kept)

\* One pass of the character loop of parseCSV at index i. `next` is the
\* index the loop looks at next: the i++ of an escaped quote skips one.
scanStep(t, i, s) ==
    IF i < s.next THEN s
    ELSE IF t[i] = "\""
    THEN IF s.insideQuotes /\ i < Len(t) /\ t[i + 1] = "\""
         THEN [s EXCEPT !.currentVal = Append(@, "\""), !.next = i + 2]
         ELSE [s EXCEPT !.insideQuotes = ~@, !.next = i + 1]
    ELSE IF t[i] = "," /\ ~s.insideQuotes
    THEN [s EXCEPT !.currentRow = Append(@, trim(s.currentVal)),
                   !.currentVal = <<>>, !.next = i + 1]
    ELSE IF t[i] = "\n" /\ ~s.insideQuotes
    THEN [s EXCEPT !.rows = Append(@, Append(s.currentRow, trim(s.currentVal))),
                   !.currentRow = <<>>, !.currentVal = <<>>, !.next = i + 1]
    ELSE [s EXCEPT !.currentVal = Append(@, t[i]), !.next = i + 1]

\* The loop over the indices lo..hi, left half before right half.
RECURSIVE scanCSV(_, _, _, _)
scanCSV(t, lo, hi, s) ==
    IF lo > hi THEN s
    ELSE IF lo = hi THEN scanStep(t, lo, s)
    ELSE LET mid == (lo + hi) \div 2
             left == scanCSV(t, lo, mid, s)
         IN  IF left.next > hi THEN left ELSE scanCSV(t, mid + 1, hi, left)

\* parseCSV of part_002: the rows themselves
parseCSVRows(text) ==
    LET t == cleanText(text)
        s == scanCSV(t, 1, Len(t),
                     [rows |-> <<>>, currentRow |-> <<>>, currentVal |-> <<>>,
                      insideQuotes |-> FALSE, next |-> 1])
    IN  IF s.currentVal # <<>> \/ Len(s.currentRow) > 0
        THEN Append(s.rows, Append(s.currentRow, trim(s.currentVal)))
        ELSE s.rows

\* parseCSV of route.ts: records keyed by the header row, empty labels skipped
parseCSVRecords(text) ==
    LET rows == parseCSVRows(text)
    IN  IF Len(rows) < 2 THEN <<>>
        ELSE [i \in 1..(Len(rows) - 1) |-> zipRow(rows[1], rows[i + 1], 1, TRUE, <<>>)]

\* One pass of the character loop of parseCSVRow at index i.
rowStep(row, i, s) ==
    IF i < s.next THEN s
    ELSE IF row[i] = "\""
    THEN IF s.insideQuotes /\ i < Len(row) /\ row[i + 1] = "\""
         THEN [s EXCEPT !.current = Append(@, "\""), !.next = i + 2]
         ELSE [s EXCEPT !.insideQuotes = ~@, !.next = i + 1]
    ELSE IF row[i] = "," /\ ~s.insideQuotes
    THEN [s EXCEPT !.result = Append(@, trim(s.current)), !.current = <<>>,
                   !.next = i + 1]
    ELSE [s EXCEPT !.current = Append(@, row[i]), !.next = i + 1]

RECURSIVE scanRow(_, _, _, _)
scanRow(row, lo, hi, s) ==
    IF lo > hi THEN s
    ELSE IF lo = hi THEN rowStep(row, lo, s)
    ELSE LET mid == (lo + hi) \div 2
             left == scanRow(row, lo, mid, s)
         IN  IF left.next > hi THEN left ELSE scanRow(row, mid + 1, hi, left)

\* parseCSVRow of part_000: one line, quote-aware
parseCSVRow(row) ==
    LET s == scanRow(row, 1, Len(row),
                     [result |-> <<>>, current |-> <<>>, insideQuotes |-> FALSE,
                      next |-> 1])
    IN  Append(s.result, trim(s.current))

\* text.split("\n")
splitLines(t) ==
    LET breaks == {p \in 1..Len(t) : t[p] = "\n"}
        before(p) == Cardinality({q \in breaks : q < p})
        from(k) == IF k = 1 THEN 1
                   ELSE 1 + CHOOSE p \in breaks : before(p) = k - 2
        upto(k) == IF k = Cardinality(breaks) + 1 THEN Len(t)
                   ELSE (CHOOSE p \in breaks : before(p) = k - 1) - 1
    IN  [k \in 1..(Cardinality(breaks) + 1) |-> SubSeq(t, from(k), upto(k))]

IsNonBlankLine(line) == trim(line) # <<>>

\* parseCSV of part_000 and part_001: line by line
parseCSVLines(text) ==
    LET lines == SelectSeq(splitLines(text), IsNonBlankLine)
    IN  IF Len(lines) < 2 THEN <<>>
        ELSE LET headers == parseCSVRow(lines[1])
             IN  [i \in 1..(Len(lines) - 1) |->
                     zipRow(headers, parseCSVRow(lines[i + 1]), 1, FALSE, <<>>)]

----------------------------------------------------------------------------
(* Column resolver.                                                        *)

\* rowKeys.find(k => norm(k) === norm(candidate)): an index, 0 for undefined
exactKey(row, candidate) ==
    LET wanted == norm(candidate)
        hits == {i \in 1..Len(row) : norm(row[i][1]) = wanted}
    IN  IF hits = {} THEN 0 ELSE SetMin(hits)

\* rowKeys.find(k => norm(k).includes(norm(candidate)))
partialKey(row, candidate) ==
    LET wanted == norm(candidate)
        hits == {i \in 1..Len(row) : includes(norm(row[i][1]), wanted)}
    IN  IF hits = {} THEN 0 ELSE SetMin(hits)

\* the find of part_000: the key contains the candidate or the candidate the key
partialKeyEitherWay(row, candidate) ==
    LET wanted == norm(candidate)
        hits == {i \in 1..Len(row) :
                    LET k == norm(row[i][1])
                    IN  includes(k, wanted) \/ includes(wanted, k)}
    IN  IF hits = {} THEN 0 ELSE SetMin(hits)

\* a key that was found and is truthy (a found empty-string key is falsy)
Found(row, k) == k # 0 /\ row[k][1] # <<>>

RECURSIVE firstExact(_, _, _)
firstExact(row, candidates, c) ==
    IF c > Len(candidates) THEN Null
    ELSE LET k == exactKey(row, candidates[c])
         IN  IF Found(row, k) THEN Some(row[k][2])
             ELSE firstExact(row, candidates, c + 1)

RECURSIVE firstPartial(_, _, _)
firstPartial(row, candidates, c) ==
    IF c > Len(candidates) THEN Null
    ELSE LET k == partialKey(row, candidates[c])
         IN  IF Found(row, k) THEN Some(row[k][2])
             ELSE firstPartial(row, candidates, c + 1)

\* findColumn of route.ts (both revisions): exact, then partial unless strict
findColumn(row, candidates, strict) ==
    LET e == firstExact(row, candidates, 1)
    IN  IF ~e.isNull THEN e.val
        ELSE IF strict THEN <<>>
        ELSE LET p == firstPartial(row, candidates, 1)
             IN  IF ~p.isNull THEN p.val ELSE <<>>

RECURSIVE firstExactNonEmpty(_, _, _)
firstExactNonEmpty(row, candidates, c) ==
    IF c > Len(candidates) THEN <<>>
    ELSE LET k == exactKey(row, candidates[c])
         IN  IF Found(row, k) /\ row[k][2] # <<>> THEN row[k][2]
             ELSE firstExactNonEmpty(row, candidates, c + 1)

RECURSIVE firstPartialNonEmpty(_, _, _)
firstPartialNonEmpty(row, candidates, c) ==
    IF c > Len(candidates) THEN <<>>
    ELSE LET k == partialKeyEitherWay(row, candidates[c])
         IN  IF Found(row, k) /\ row[k][2] # <<>> THEN row[k][2]
             ELSE firstPartialNonEmpty(row, candidates, c + 1)

\* findColumn of part_000 and part_001 (943-1354): only non-empty cells count
findColumnLoose(row, candidates) ==
    LET e == firstExactNonEmpty(row, candidates, 1)
    IN  IF e # <<>> THEN e ELSE firstPartialNonEmpty(row, candidates, 1)

----------------------------------------------------------------------------
(* Business classifier and output mapping.                                 *)

isApiOrFeed(method) ==
    includes(method, kwApi) \/ includes(method, kwDataFeed) \/ includes(method, kwDatafeed)

\* ---- route.ts (both revisions) ----

AccessCandidates == <<sAccessMethod, sAccess_Method_L__c>>
StageCandidates == <<sStage, sStageName>>

hasAccessMethod(rows) ==
    \E i \in 1..Len(rows) : findColumn(rows[i], AccessCandidates, FALSE) # <<>>

\* the predicate of rows.filter inside filterOpps
keepsRow(row, stageKeyword, anyAccess) ==
    LET stage == toLowerCase(findColumn(row, StageCandidates, FALSE))
        matchesStage == includes(stage, stageKeyword)
        method == toLowerCase(findColumn(row, AccessCandidates, FALSE))
    IN  IF ~anyAccess THEN matchesStage ELSE matchesStage /\ isApiOrFeed(method)

filterRows(rows, stageKeyword) ==
    LET anyAccess == hasAccessMethod(rows)
        Keep(row) == keepsRow(row, stageKeyword, anyAccess)
    IN  SelectSeq(rows, Keep)

\* mapToOpportunity: the name, the stage and the access method
mapToOpportunity(row, idx) ==
    [name |-> findColumn(row, <<sOpportunityName, sName, sOpportunity>>, FALSE),
     stageName |-> findColumn(row, <<sStage, sStageName, sStage_Name>>, FALSE),
     accessMethod |-> findColumn(row, <<sAccessMethodOpp, sAccess_Method_Opp__c, sAccessMethod>>, FALSE)]

filterOpps(rows, stageKeyword) ==
    LET kept == filterRows(rows, stageKeyword)
    IN  [i \in 1..Len(kept) |-> mapToOpportunity(kept[i], i - 1)]

\* ---- part_000 and part_001 (943-1354) ----

AccessCandidatesLoose ==
    <<sAccessMethodL, sAccess_Method_L__c, sAccessMethodLPlain, sAccessMethod, sAccess_Method>>
StageCandidatesLoose == <<sStage, sStageName, sStage_Name>>

hasApiOrDatafeed(row) ==
    isApiOrFeed(toLowerCase(
        findColumnLoose(row, Append(AccessCandidatesLoose, sAccessMethodJoined))))

hasAccessMethodColumn(rows) ==
    \E i \in 1..Len(rows) : findColumnLoose(rows[i], AccessCandidatesLoose) # <<>>

stageMatchLoose(row, stageKeyword) ==
    includes(toLowerCase(findColumnLoose(row, StageCandidatesLoose)), stageKeyword)

\* part_000: rows.filter(...) of GET
filterRowsLoose(rows, stageKeyword) ==
    LET anyAccess == hasAccessMethodColumn(rows)
        Keep(row) == IF ~anyAccess THEN stageMatchLoose(row, stageKeyword)
                     ELSE stageMatchLoose(row, stageKeyword) /\ hasApiOrDatafeed(row)
    IN  SelectSeq(rows, Keep)

\* part_001 (943-1354): the access method is always required
filterRowsAlways(rows, stageKeyword) ==
    LET Keep(row) == stageMatchLoose(row, stageKeyword) /\ hasApiOrDatafeed(row)
    IN  SelectSeq(rows, Keep)

\* mapToOpportunity of part_001 (943-1354): the name, the stage and the
\* access method of the opportunity
mapToOpportunityLoose(row, idx) ==
    [name |-> findColumnLoose(row, <<sOpportunityName, sName, sOpportunity>>),
     stageName |-> findColumnLoose(row, StageCandidatesLoose),
     accessMethod |-> findColumnLoose(row, AccessCandidatesLoose)]

mapAllLoose(kept) == [i \in 1..Len(kept) |-> mapToOpportunityLoose(kept[i], i - 1)]

\* mapToOpportunity of part_000: "Product modules" is one more access label
mapToOpportunityModules(row, idx) ==
    [name |-> findColumnLoose(row, <<sOpportunityName, sName, sOpportunity>>),
     stageName |-> findColumnLoose(row, StageCandidatesLoose),
     accessMethod |-> findColumnLoose(row, Append(AccessCandidatesLoose, sProductModules))]

mapAllModules(kept) == [i \in 1..Len(kept) |-> mapToOpportunityModules(kept[i], i - 1)]

\* ---- part_002: columns by position ----

COLUMN_OPPORTUNITY_NAME == 0
COLUMN_STAGE == 2
COLUMN_ACCESS_METHOD == 6

\* row[i] || ""  (i counts from 0)
cell(row, i) == IF i + 1 <= Len(row) THEN row[i + 1] ELSE <<>>

mapRowToOpportunity(row, idx) ==
    [name |-> cell(row, COLUMN_OPPORTUNITY_NAME),
     stageName |-> cell(row, COLUMN_STAGE),
     accessMethod |-> cell(row, COLUMN_ACCESS_METHOD)]

keepsRowByPosition(row, stageKeyword) ==
    LET stage == toLowerCase(cell(row, COLUMN_STAGE))
        matchesStage == includes(stage, stageKeyword)
        accessMethod == toLowerCase(cell(row, COLUMN_ACCESS_METHOD))
        rowHasAccessMethod == Len(accessMethod) > 0
    IN  IF ~rowHasAccessMethod THEN matchesStage
        ELSE matchesStage /\ isApiOrFeed(accessMethod)

filterRowsByPosition(dataRows, stageKeyword) ==
    LET Keep(row) == keepsRowByPosition(row, stageKeyword)
    IN  SelectSeq(dataRows, Keep)

filterOppsByPosition(dataRows, stageKeyword) ==
    LET kept == filterRowsByPosition(dataRows, stageKeyword)
    IN  [i \in 1..Len(kept) |-> mapRowToOpportunity(kept[i], i - 1)]

----------------------------------------------------------------------------
(* What the spreadsheet service may answer.                                *)

\* the largest number of data rows of a sheet
MaxDataRows == 2

vDueDiligence == <<"D","u","e"," ","D","i","l","i","g","e","n","c","e">>
vStandingApart == <<"S","t","a","n","d","i","n","g"," ","A","p","a","r","t">>
vClosedWon == <<"C","l","o","s","e","d"," ","W","o","n">>
vAPI == <<"A","P","I">>
vDataFeed == <<"D","a","t","a"," ","F","e","e","d">>
vSFTP == <<"S","F","T","P">>
vAcme == <<"A","c","m","e">>

\* The header row: the stage in column C and the access method in column G.
SheetHeader ==
    <<sOpportunityName, sAccountName, sStage, sCloseDate, sAmount,
      sOpportunityOwner, sAccessMethod>>

sheetRow(stage, access) == <<vAcme, <<>>, stage, <<>>, <<>>, <<>>, access>>

RowPool ==
    { sheetRow(vDueDiligence, vAPI), sheetRow(vDueDiligence, <<>>),
      sheetRow(vStandingApart, vDataFeed), sheetRow(vClosedWon, vSFTP) }

\* every sheet of at most MaxDataRows data rows under the header, and the
\* sheet with no row at all
Grids ==
    {<<>>} \cup
    UNION { { <<SheetHeader>> \o body : body \in [1..n -> RowPool] } : n \in 0..MaxDataRows }

RECURSIVE joinWith(_, _, _)
joinWith(parts, sep, i) ==
    IF i > Len(parts) THEN <<>>
    ELSE (IF i > 1 THEN sep ELSE <<>>) \o parts[i] \o joinWith(parts, sep, i + 1)

\* the sheet as the export endpoint writes it (no cell needs quoting)
toCSV(grid) ==
    joinWith([r \in 1..Len(grid) |-> joinWith(grid[r], <<",">>, 1)], <<"\n">>, 1)

\* a sign-in page, and an interstitial page in upper-case markup after a blank
bDoctype == <<"<","!","D","O","C","T","Y","P","E"," ","h","t","m","l",">","\n","<","p",">","S","i","g","n"," ","i","n","<","/","p",">">>
bUpperHtml == <<" ","<","H","T","M","L",">","\n","<","B","O","D","Y",">","\n","S","i","g","n"," ","i","n">>

\* the export of a sheet of at most one data row, or a page of markup
Bodies == {bDoctype, bUpperHtml} \cup {toCSV(g) : g \in {h \in Grids : Len(h) <= 2}}

\* the googleapis client: it rejects, or resolves with res.data.values
SAOutcomes ==
    {[kind |-> "throw"], [kind |-> "novalues"]}
        \cup {[kind |-> "values", values |-> g] : g \in Grids}

\* fetch of the values endpoint: it rejects, answers a non-OK status, a body
\* that is not JSON, or JSON with or without `values`
AKOutcomes ==
    {[kind |-> "throw"], [kind |-> "notok"], [kind |-> "badjson"], [kind |-> "novalues"]}
        \cup {[kind |-> "values", values |-> g] : g \in Grids}

\* fetch of an export URL: it rejects, answers a non-OK status, or a text body
CSVOutcomes ==
    {[kind |-> "throw"], [kind |-> "notok"]}
        \cup {[kind |-> "text", text |-> b] : b \in Bodies}

\* GOOGLE_SERVICE_ACCOUNT_PRIVATE_KEY, by its length and whether it contains
\* "BEGIN PRIVATE KEY"; length 0 is the unset variable
NoKey == [len |-> 0, marker |-> FALSE]
ShortKey == [len |-> 39, marker |-> FALSE]
HundredKey == [len |-> 100, marker |-> FALSE]
LongKey == [len |-> 150, marker |-> FALSE]
PemKey == [len |-> 1700, marker |-> TRUE]

\* GOOGLE_SERVICE_ACCOUNT_EMAIL (unset, or set) with the key
Environments ==
    { [email |-> "", rawKey |-> NoKey],
      [email |-> "", rawKey |-> ShortKey],
      [email |-> "", rawKey |-> PemKey],
      [email |-> "svc@project.iam", rawKey |-> ShortKey],
      [email |-> "svc@project.iam", rawKey |-> HundredKey],
      [email |-> "svc@project.iam", rawKey |-> LongKey],
      [email |-> "svc@project.iam", rawKey |-> PemKey] }

Variants == {"R1", "R2", "U0", "U1d", "U2"}

----------------------------------------------------------------------------
(* Source resolution: which methods GET calls, and when a method is        *)
(* configured.                                                             *)

SA == "service-account"
AK == "api-key"
CSV == "csv"

\* route.ts 296-309 and part_002 185-193: service account, then CSV
OrderSaCsv == <<SA, CSV>>
\* route.ts 606-623: service account, API key, CSV
OrderSaAkCsv == <<SA, AK, CSV>>
\* part_000 248-276 and part_001 1208-1243: API key, service account, CSV
OrderAkSaCsv == <<AK, SA, CSV>>

Order(v) ==
    CASE v \in {"R1", "U2"} -> OrderSaCsv
      [] v = "R2" -> OrderSaAkCsv
      [] v \in {"U0", "U1d"} -> OrderAkSaCsv

\* apiKey.length > 100, rawKey.length < 100
KEY_LENGTH_LIMIT == 100

\* if (!email || !rawKey || !rawKey.includes("BEGIN PRIVATE KEY")) return null
saConfiguredByMarker(e, k) == e # "" /\ k.len > 0 /\ k.marker

\* if (!email || !rawKey) return null;
\* if (!rawKey.includes("BEGIN PRIVATE KEY") && rawKey.length < 100) return null
saConfiguredByLength(e, k) ==
    e # "" /\ k.len > 0 /\ ~(~k.marker /\ k.len < KEY_LENGTH_LIMIT)

\* if (!apiKey || apiKey.includes("BEGIN PRIVATE KEY")) return null
akConfiguredByMarker(k) == k.len > 0 /\ ~k.marker

\* if (!apiKey) return null;
\* if (apiKey.includes("BEGIN PRIVATE KEY") || apiKey.length > 100) return null
akConfiguredByLength(k) == k.len > 0 /\ ~(k.marker \/ k.len > KEY_LENGTH_LIMIT)

\* does method m get past its early returns and issue a request
Configured(v, m, e, k) ==
    CASE m = CSV -> TRUE
      [] m = SA -> IF v \in {"U0", "U1d"} THEN saConfiguredByLength(e, k)
                   ELSE saConfiguredByMarker(e, k)
      [] m = AK -> IF v \in {"U0", "U1d"} THEN akConfiguredByLength(k)
                   ELSE akConfiguredByMarker(k)

\* the `urls` array of fetchViaCSV
urlsExportGviz == <<"export?format=csv&gid", "gviz/tq?tqx=out:csv&gid">>
urlsExportSheetGviz ==
    <<"export?format=csv&gid", "gviz/tq?tqx=out:csv&sheet", "gviz/tq?tqx=out:csv&gid">>

urls(v) == IF v \in {"U0", "U1d"} THEN urlsExportSheetGviz ELSE urlsExportGviz

\* for (let attempt = 0; attempt < 2; attempt++)
ATTEMPTS_PER_URL == 2

\* a retry loop that runs once more: for (...; attempt < 3; ...)
attemptsPerUrlOnceMore(v) == IF v = "U0" THEN ATTEMPTS_PER_URL + 1 ELSE 1

attemptsPerUrl(v) == IF v = "U0" THEN ATTEMPTS_PER_URL ELSE 1

----------------------------------------------------------------------------
(* What a fetch function resolves with, or that it rejects.                *)

Resolved(ret) == [threw |-> FALSE, ret |-> ret]
Rejected == [threw |-> TRUE, ret |-> Null]

\* res.data.values || null  (an empty array is truthy)
valuesOrNull(o) == IF o.kind = "values" THEN Some(o.values) ELSE Null

\* fetchViaServiceAccount once the request has come back
saSettles(v, o) ==
    CASE v = "R1" ->
            IF o.kind = "throw" THEN Resolved(Null)
            ELSE Resolved(Some(rowsToRecords(valuesOrNull(o))))
      [] v = "R2" ->
            IF o.kind = "throw" THEN Rejected
            ELSE Resolved(Some(rowsToRecords(valuesOrNull(o))))
      [] v = "U2" ->
            IF o.kind = "throw" THEN Resolved(Null) ELSE Resolved(valuesOrNull(o))
      [] v \in {"U0", "U1d"} ->
            IF o.kind = "throw" THEN Rejected ELSE Resolved(valuesOrNull(o))

\* fetchViaAPIKey once the request has come back
akSettles(v, o) ==
    CASE o.kind \in {"throw", "badjson"} -> Rejected
      [] o.kind = "notok" -> Resolved(Null)
      [] OTHER -> IF v = "R2" THEN Resolved(Some(rowsToRecords(valuesOrNull(o))))
                  ELSE Resolved(valuesOrNull(o))

\* text.trim().startsWith("<")
looksLikeMarkup(text) == startsWith(trim(text), sLt)

\* text.trim().startsWith("<!") || text.trim().startsWith("<html")
looksLikeHtmlPage(text) ==
    startsWith(trim(text), sLtBang) \/ startsWith(trim(text), sLtHtml)

\* one pass of the body of the CSV loop: the rows it returns, or how it failed
csvAttempt(v, o) ==
    CASE o.kind = "throw" -> [ok |-> FALSE, fail |-> "threw", rows |-> <<>>]
      [] o.kind = "notok" -> [ok |-> FALSE, fail |-> "notok", rows |-> <<>>]
      [] OTHER ->
            LET html == IF v \in {"U0", "U1d"} THEN looksLikeHtmlPage(o.text)
                        ELSE looksLikeMarkup(o.text)
                parsed == CASE v \in {"U0", "U1d"} -> parseCSVLines(o.text)
                            [] v = "U2" -> parseCSVRows(o.text)
                            [] OTHER -> parseCSVRecords(o.text)
            IN  IF html THEN [ok |-> FALSE, fail |-> "html", rows |-> <<>>]
                ELSE IF Len(parsed) > 0 THEN [ok |-> TRUE, fail |-> "none", rows |-> parsed]
                ELSE [ok |-> FALSE, fail |-> "norows", rows |-> <<>>]

----------------------------------------------------------------------------
(* The JSON bodies of GET. A field of the record is a field of the body.   *)

Has(r, f) == f \in DOMAIN r

dataResponse(dd, sa, src) ==
    [status |-> 200, dueDiligence |-> dd, standingApart |-> sa,
     totalDueDiligence |-> Len(dd), totalStandingApart |-> Len(sa),
     configured |-> TRUE, source |-> src]

\* { error: "No data", configured: false }
noDataBare == [status |-> 200, error |-> "No data", configured |-> FALSE]

\* the "Nothing worked" body of part_000
noDataNone ==
    [status |-> 200, error |-> "No data available from Google Sheets.",
     dueDiligence |-> <<>>, standingApart |-> <<>>,
     totalDueDiligence |-> 0, totalStandingApart |-> 0,
     configured |-> FALSE, source |-> "none"]

\* { error: String(error), configured: true, source: "error" }
errorBare ==
    [status |-> 200, error |-> "Error", configured |-> TRUE, source |-> "error"]

\* part_001 (943-1354): all rows, unfiltered, when both filters are empty
debugResponse(rs, src) ==
    [status |-> 200, dueDiligence |-> mapAllLoose(rs), standingApart |-> <<>>,
     totalDueDiligence |-> Len(rs), totalStandingApart |-> 0,
     configured |-> TRUE, source |-> src, debug |-> TRUE]

\* GET from the "nothing worked" test to the end
respond(v, rs, src) ==
    CASE v \in {"R1", "R2"} ->
            IF rs.isNull \/ Len(rs.val) = 0 THEN noDataBare
            ELSE dataResponse(filterOpps(rs.val, kwDueDiligence),
                              filterOpps(rs.val, kwStandingApart), src)
      [] v = "U2" ->
            IF rs.isNull \/ Len(rs.val) < 2 THEN noDataBare
            ELSE dataResponse(filterOppsByPosition(Tail(rs.val), kwDueDiligence),
                              filterOppsByPosition(Tail(rs.val), kwStandingApart), src)
      [] v = "U0" ->
            IF rs.isNull \/ Len(rs.val) = 0 THEN noDataNone
            ELSE dataResponse(mapAllModules(filterRowsLoose(rs.val, kwDueDiligence)),
                              mapAllModules(filterRowsLoose(rs.val, kwStandingApart)), src)
      [] v = "U1d" ->
            IF rs.isNull \/ Len(rs.val) = 0 THEN noDataNone
            ELSE LET dd == filterRowsAlways(rs.val, kwDueDiligence)
                     sa == filterRowsAlways(rs.val, kwStandingApart)
                 IN  IF Len(dd) = 0 /\ Len(sa) = 0 THEN debugResponse(rs.val, src)
                     ELSE dataResponse(mapAllLoose(dd), mapAllLoose(sa), src)

----------------------------------------------------------------------------
(* One GET request.                                                        *)

\* the two datasets the Dashboard reads through useSWR
Datasets == {"tickets", "opportunities"}

\* the component as it mounts: both hooks fetch, nothing is loaded
DashboardOnMount ==
    [isRefreshing |-> FALSE,
     lastUpdated |-> FALSE,
     fetching |-> [d \in Datasets |-> TRUE],
     data |-> [d \in Datasets |-> FALSE],
     error |-> [d \in Datasets |-> FALSE],
     awaiting |-> FALSE,
     promise |-> [d \in Datasets |-> "none"],
     refreshes |-> 0,
     revalidations |-> 0]

VARIABLES
    variant,       \* which revision of the route handler serves the request
    email,         \* GOOGLE_SERVICE_ACCOUNT_EMAIL
    rawKey,        \* GOOGLE_SERVICE_ACCOUNT_PRIVATE_KEY
    pc,            \* "call", "await" (a request is in flight), "delay", "done"
    step,          \* the position in Order(variant) GET has reached
    rows,          \* GET's `rows` (`rawRows` in part_002)
    source,        \* GET's `source`
    entered,       \* the fetch functions GET has called, in call order
    calls,         \* requests issued by the service-account and API-key methods
    urlIdx,        \* fetchViaCSV: index of the URL being fetched (0 before)
    attempt,       \* fetchViaCSV: `attempt` of the retry loop
    csvCalls,      \* requests issued per export URL
    acceptedBody,  \* the body fetchViaCSV returned rows from
    response,      \* the body GET answered with; status 0 before it answers
    subject,       \* "GET", or the function applied on its own to `arg`
    arg,           \* the argument of that function
    result,        \* what it returned, Null before it has
    dashboard      \* the Dashboard component: its state and its hooks'

vars ==
    <<variant, email, rawKey, pc, step, rows, source, entered, calls, urlIdx,
      attempt, csvCalls, acceptedBody, response, subject, arg, result,
      dashboard>>

Init ==
    /\ variant \in Variants
    /\ \E env \in Environments : email = env.email /\ rawKey = env.rawKey
    /\ pc = "call"
    /\ step = 1
    /\ rows = Null
    /\ source = ""
    /\ entered = <<>>
    /\ calls = [m \in {SA, AK} |-> 0]
    /\ urlIdx = 0
    /\ attempt = 0
    /\ csvCalls = [u \in 1..Len(urls(variant)) |-> 0]
    /\ acceptedBody = Null
    /\ response = [status |-> 0]
    /\ subject = "GET" /\ arg = <<>> /\ result = Null
    /\ dashboard = DashboardOnMount

method == Order(variant)[step]

\* the `if (!rows)` / `if (!rows || rows.length === 0)` around a later method
reaches(v, s, rs) ==
    \/ s = 1
    \/ rs.isNull
    \/ v \in {"U0", "U1d"} /\ Len(rs.val) = 0

\* GET's statements after `await fetchVia...()` has settled with f
settle(m, f) ==
    IF f.threw
    THEN IF variant \in {"U0", "U1d"}
         THEN /\ pc' = "call" /\ step' = step + 1
              /\ UNCHANGED <<rows, source, response>>
         ELSE /\ pc' = "done" /\ response' = errorBare
              /\ UNCHANGED <<rows, source, step>>
    ELSE /\ pc' = "call" /\ step' = step + 1
         /\ UNCHANGED response
         /\ IF variant \in {"U0", "U1d"}
            THEN IF m = CSV
                 THEN rows' = f.ret /\ source' = CSV
                 ELSE IF ~f.ret.isNull /\ Len(f.ret.val) > 1
                      THEN rows' = Some(rowsToRecords(f.ret)) /\ source' = m
                      ELSE UNCHANGED <<rows, source>>
            ELSE /\ rows' = f.ret
                 /\ source' = IF ~f.ret.isNull THEN m ELSE source

\* the guard around a method is false: GET passes it by
SkipMethod ==
    /\ pc = "call" /\ step <= Len(Order(variant))
    /\ ~reaches(variant, step, rows)
    /\ step' = step + 1
    /\ UNCHANGED <<variant, email, rawKey, pc, rows, source, entered, calls,
                   urlIdx, attempt, csvCalls, acceptedBody, response>>
    /\ UNCHANGED <<subject, arg, result, dashboard>>

\* the method is called and returns null at once, its prerequisites missing
ReturnsNullUnconfigured ==
    /\ pc = "call" /\ step <= Len(Order(variant))
    /\ reaches(variant, step, rows)
    /\ ~Configured(variant, method, email, rawKey)
    /\ entered' = Append(entered, method)
    /\ settle(method, Resolved(Null))
    /\ UNCHANGED <<variant, email, rawKey, calls, urlIdx, attempt, csvCalls,
                   acceptedBody>>
    /\ UNCHANGED <<subject, arg, result, dashboard>>

\* the method is called and issues its (first) request
IssueRequest ==
    /\ pc = "call" /\ step <= Len(Order(variant))
    /\ reaches(variant, step, rows)
    /\ Configured(variant, method, email, rawKey)
    /\ entered' = Append(entered, method)
    /\ pc' = "await"
    /\ IF method = CSV
       THEN /\ urlIdx' = 1 /\ attempt' = 0
            /\ csvCalls' = [csvCalls EXCEPT ![1] = @ + 1]
            /\ UNCHANGED calls
       ELSE /\ calls' = [calls EXCEPT ![method] = @ + 1]
            /\ UNCHANGED <<urlIdx, attempt, csvCalls>>
    /\ UNCHANGED <<variant, email, rawKey, step, rows, source,
                   acceptedBody, response>>
    /\ UNCHANGED <<subject, arg, result, dashboard>>

\* sheets.spreadsheets.values.get comes back
ServiceAccountReturns(o) ==
    /\ pc = "await" /\ method = SA
    /\ settle(SA, saSettles(variant, o))
    /\ UNCHANGED <<variant, email, rawKey, entered, calls, urlIdx, attempt,
                   csvCalls, acceptedBody>>
    /\ UNCHANGED <<subject, arg, result, dashboard>>

\* the fetch of the values endpoint comes back
APIKeyReturns(o) ==
    /\ pc = "await" /\ method = AK
    /\ settle(AK, akSettles(variant, o))
    /\ UNCHANGED <<variant, email, rawKey, entered, calls, urlIdx, attempt,
                   csvCalls, acceptedBody>>
    /\ UNCHANGED <<subject, arg, result, dashboard>>

\* the fetch of an export URL comes back: fetchViaCSV returns rows, or goes
\* on to the delay, the next attempt or the next URL, or returns null
CSVReturns(o) ==
    /\ pc = "await" /\ method = CSV
    /\ LET a == csvAttempt(variant, o)
       IN  IF a.ok
           THEN /\ acceptedBody' = Some(o.text)
                /\ settle(CSV, Resolved(Some(a.rows)))
                /\ UNCHANGED <<urlIdx, attempt, csvCalls>>
           ELSE /\ UNCHANGED acceptedBody
                /\ IF variant = "U0" /\ a.fail = "threw" /\ attempt < 1
                   THEN /\ pc' = "delay"
                        /\ UNCHANGED <<step, rows, source, response, urlIdx,
                                       attempt, csvCalls>>
                   ELSE IF attempt + 1 < attemptsPerUrl(variant)
                   THEN /\ attempt' = attempt + 1
                        /\ csvCalls' = [csvCalls EXCEPT ![urlIdx] = @ + 1]
                        /\ UNCHANGED <<pc, step, rows, source, response, urlIdx>>
                   ELSE IF urlIdx < Len(urls(variant))
                   THEN /\ urlIdx' = urlIdx + 1 /\ attempt' = 0
                        /\ csvCalls' = [csvCalls EXCEPT ![urlIdx + 1] = @ + 1]
                        /\ UNCHANGED <<pc, step, rows, source, response>>
                   ELSE /\ settle(CSV, Resolved(Null))
                        /\ UNCHANGED <<urlIdx, attempt, csvCalls>>
    /\ UNCHANGED <<variant, email, rawKey, entered, calls>>
    /\ UNCHANGED <<subject, arg, result, dashboard>>

\* setTimeout(r, 1000) fires: the second attempt on the same URL
DelayElapses ==
    /\ pc = "delay"
    /\ pc' = "await"
    /\ attempt' = attempt + 1
    /\ csvCalls' = [csvCalls EXCEPT ![urlIdx] = @ + 1]
    /\ UNCHANGED <<variant, email, rawKey, step, rows, source, entered, calls,
                   urlIdx, acceptedBody, response>>
    /\ UNCHANGED <<subject, arg, result, dashboard>>

\* every method is behind: GET answers
Respond ==
    /\ pc = "call" /\ step > Len(Order(variant))
    /\ pc' = "done"
    /\ response' = respond(variant, rows, source)
    /\ UNCHANGED <<variant, email, rawKey, step, rows, source, entered, calls,
                   urlIdx, attempt, csvCalls, acceptedBody>>
    /\ UNCHANGED <<subject, arg, result, dashboard>>

Next ==
    \/ SkipMethod
    \/ ReturnsNullUnconfigured
    \/ IssueRequest
    \/ \E o \in SAOutcomes : ServiceAccountReturns(o)
    \/ \E o \in AKOutcomes : APIKeyReturns(o)
    \/ \E o \in CSVOutcomes : CSVReturns(o)
    \/ DelayElapses
    \/ Respond

Spec == Init /\ [][Next]_vars

----------------------------------------------------------------------------
(* Properties of the source resolution.                                    *)

Methods == {SA, AK, CSV}

\* the priority the contract gives the methods
rank(m) == CASE m = SA -> 1 [] m = AK -> 2 [] m = CSV -> 3

\* rs holds no data row beyond the header (part_002 keeps the header in it)
NoDataRows(v, rs) ==
    rs.isNull \/ (IF v = "U2" THEN Len(rs.val) < 2 ELSE Len(rs.val) = 0)

Answered == pc = "done"

\* the body names a method as its source
NamesMethod(r) == Has(r, "source") /\ r.source \in Methods

\* the body has both buckets, empty, with zero totals
EmptyBuckets(r) ==
    /\ Has(r, "dueDiligence") /\ r.dueDiligence = <<>>
    /\ Has(r, "standingApart") /\ r.standingApart = <<>>
    /\ Has(r, "totalDueDiligence") /\ r.totalDueDiligence = 0
    /\ Has(r, "totalStandingApart") /\ r.totalStandingApart = 0

\* the method has issued a request
Started(m) == IF m = CSV THEN csvCalls[1] > 0 ELSE calls[m] > 0

\* C1: within one GET a method issues its first request only while no other
\* request is in flight and no earlier method has left a data row, the
\* requests follow the order service-account, api-key, csv, and the source of
\* the answer is the method called last, the one whose rows fill the buckets.
C1_Step ==
    /\ \A m \in Methods :
          (~Started(m) /\ Started(m)') =>
              /\ pc = "call"
              /\ NoDataRows(variant, rows)
              /\ \A earlier \in Methods :
                    Started(earlier) => rank(earlier) < rank(m)
    /\ (pc' = "done" /\ NamesMethod(response')) =>
          /\ entered # <<>>
          /\ response'.source = entered[Len(entered)]
          /\ ~NoDataRows(variant, rows)

\* C1: every step of GET keeps the priority order and the source tag
C1_PriorityOrder == [][C1_Step]_vars

\* C2: when a method completes leaving no data row beyond the header, the
\* next method of the order is still called, and an answer never names as
\* its source a method that produced no data row.
C2_Step ==
    /\ (pc = "await" /\ pc' = "call" /\ NoDataRows(variant, rows')
            /\ step' <= Len(Order(variant)))
          => reaches(variant, step', rows')
    /\ (pc' = "done" /\ NamesMethod(response')) => ~NoDataRows(variant, rows')

\* C2: every step of GET treats a method without data rows as empty
C2_EmptyGridFallsThrough == [][C2_Step]_vars

\* C3: an error raised by one method does not end the resolution: GET
\* answers with source "error" only after every method of the order has
\* been called.
C3_ErrorsAbsorbed ==
    (Answered /\ Has(response, "source") /\ response.source = "error")
        => entered = Order(variant)

\* C4: when every method has been called, none has produced a data row and
\* nothing was thrown up to GET, the answer has source "none" and empty
\* buckets with zero totals.
C4_NoneWithEmptyBuckets ==
    (Answered /\ entered = Order(variant) /\ NoDataRows(variant, rows)
        /\ ~(Has(response, "source") /\ response.source = "error"))
        => /\ Has(response, "source") /\ response.source = "none"
           /\ EmptyBuckets(response)

\* C5: every answer has status 200, and an answer to an exception carries
\* an error description, source "error" and empty buckets with zero totals.
C5_ErrorAnswerWellFormed ==
    Answered =>
        /\ response.status = 200
        /\ (Has(response, "source") /\ response.source = "error")
              => Has(response, "error") /\ EmptyBuckets(response)

\* the prerequisites as the contract words them: an email with a key that
\* carries the private-key marker; a key that does not look like a private
\* key (no marker, not too long)
saPrerequisites == email # "" /\ rawKey.len > 0 /\ rawKey.marker
akPrerequisites ==
    rawKey.len > 0 /\ ~rawKey.marker /\ rawKey.len <= KEY_LENGTH_LIMIT

\* C6: with the service-account and the api-key prerequisites both absent,
\* neither of the two methods issues a request, and an answer that names a
\* method as its source names "csv".
C6_FallsThroughToCsv ==
    (~saPrerequisites /\ ~akPrerequisites) =>
        /\ calls[SA] = 0 /\ calls[AK] = 0
        /\ (Answered /\ NamesMethod(response)) => response.source = CSV

\* C7: the export URLs are fetched in their listed order, each at most
\* twice, and the second request for a URL is issued only by the step that
\* ends the delay.
C7_Step ==
    /\ urlIdx' \in {urlIdx, urlIdx + 1}
    /\ \A u \in DOMAIN csvCalls : csvCalls'[u] <= 2
    /\ (urlIdx' = urlIdx /\ attempt' = attempt + 1) => pc = "delay"

\* C7: every step of the public-export method keeps the URL order, the two
\* attempts per URL and the delay before the second attempt
C7_DelayBeforeSecondAttempt == [][C7_Step]_vars

\* no method occurs twice among the calls of GET
NoReentry == \A i, j \in DOMAIN entered : entered[i] = entered[j] => i = j

\* how far GET has come: the method it is at, the requests issued, and,
\* within a request, awaiting before delaying before answering
Progress ==
    100 * step
      + 10 * (calls[SA] + calls[AK] + csvCalls[1] + csvCalls[2]
                + (IF Len(csvCalls) > 2 THEN csvCalls[3] ELSE 0))
      + (CASE pc = "call" -> 0 [] pc = "await" -> 1 [] pc = "delay" -> 2
           [] pc = "done" -> 3)

\* GET has answered, or waits for a request in flight to come back, or has
\* a step of its own to take
CanStep ==
    \/ Answered
    \/ pc = "await"
    \/ pc = "call" /\ step > Len(Order(variant))
    \/ ENABLED (SkipMethod \/ ReturnsNullUnconfigured \/ IssueRequest \/ DelayElapses)

C9_NoRowsFromMarkup ==
    ~acceptedBody.isNull => ~startsWith(trim(acceptedBody.val), sLt)

----------------------------------------------------------------------------
(* Properties of the business classifier.                                  *)

\* the cell of a record under a header label, "" without the label
valueAt(row, label) ==
    IF hasKey(row, label)
    THEN row[CHOOSE i \in 1..Len(row) : row[i][1] = label][2]
    ELSE <<>>

\* the records GET classifies (part_002 keeps the header row in front)
recordsOf(v, rs) == IF v = "U2" THEN Tail(rs.val) ELSE rs.val

stageOf(v, r) == IF v = "U2" THEN cell(r, COLUMN_STAGE) ELSE valueAt(r, sStage)
accessOf(v, r) ==
    IF v = "U2" THEN cell(r, COLUMN_ACCESS_METHOD) ELSE valueAt(r, sAccessMethod)

\* the bucket the contract asks for: the stage contains the keyword, and, if
\* any record of the set has an access method, the record's own access
\* method names an API or a data feed
expectedBucket(v, rs, stageKeyword) ==
    LET recs == recordsOf(v, rs)
        anyAccess == \E i \in 1..Len(recs) : accessOf(v, recs[i]) # <<>>
        Keep(r) ==
            /\ includes(toLowerCase(stageOf(v, r)), stageKeyword)
            /\ anyAccess =>
                  LET a == toLowerCase(accessOf(v, r))
                  IN  includes(a, kwApi) \/ includes(a, kwDataFeed) \/ includes(a, kwDatafeed)
        kept == SelectSeq(recs, Keep)
    IN  [i \in 1..Len(kept) |-> <<stageOf(v, kept[i]), accessOf(v, kept[i])>>]

bucketView(bucket) ==
    [i \in 1..Len(bucket) |-> <<bucket[i].stageName, bucket[i].accessMethod>>]

\* C10: the buckets of an answer with data are the stage-matching records,
\* all of them if no record of the set has an access method, else those whose
\* own access method contains "api", "data feed" or "datafeed".
C10_BucketsFollowAccessRule ==
    (Answered /\ NamesMethod(response) /\ ~NoDataRows(variant, rows)) =>
        /\ bucketView(response.dueDiligence)
              = expectedBucket(variant, rows, kwDueDiligence)
        /\ bucketView(response.standingApart)
              = expectedBucket(variant, rows, kwStandingApart)

----------------------------------------------------------------------------
(* Properties of the buckets and of the mapped records.                    *)

\* C11: every opportunity of the dueDiligence bucket has a stageName that
\* contains "due diligence", every opportunity of the standingApart bucket
\* one that contains "standing apart", case-insensitively.
C11_BucketsMatchStage ==
    (Answered /\ Has(response, "dueDiligence") /\ Has(response, "standingApart")) =>
        /\ \A i \in 1..Len(response.dueDiligence) :
              includes(toLowerCase(response.dueDiligence[i].stageName), kwDueDiligence)
        /\ \A i \in 1..Len(response.standingApart) :
              includes(toLowerCase(response.standingApart[i].stageName), kwStandingApart)

----------------------------------------------------------------------------
(* Identifier canonicalizer (route.ts 11-29 and 177-191).                  *)

s006 == <<"0","0","6">>
Digits == <<"0","1","2","3","4","5","6","7","8","9">>

\* an alphabet whose last six characters are lower-case letters
SUFFIX_ALPHABET_LETTERS == UpperChars \o SubSeq(LowerChars, 1, 6)

\* "ABCDEFGHIJKLMNOPQRSTUVWXYZ012345"
SUFFIX_ALPHABET == UpperChars \o SubSeq(Digits, 1, 6)

\* a test that ignores the case of the letter
isAnyLetter(c) ==
    \/ \E i \in 1..Len(UpperChars) : UpperChars[i] = c
    \/ \E i \in 1..Len(LowerChars) : LowerChars[i] = c

\* char >= "A" && char <= "Z", for the one character charAt returns
isUpperCase(c) == \E i \in 1..Len(UpperChars) : UpperChars[i] = c

\* /^[a-zA-Z0-9]+$/.test(trimmed)
isAlphanumeric(s) ==
    /\ Len(s) > 0
    /\ \A i \in 1..Len(s) :
          \/ isUpperCase(s[i])
          \/ \E k \in 1..Len(LowerChars) : LowerChars[k] = s[i]
          \/ \E k \in 1..Len(Digits) : Digits[k] = s[i]

isValidOpportunityId(value) ==
    IF value = <<>> THEN FALSE
    ELSE LET trimmed == trim(value)
         IN  IF ~startsWith(trimmed, s006) THEN FALSE
             ELSE IF Len(trimmed) # 15 /\ Len(trimmed) # 18 THEN FALSE
             ELSE isAlphanumeric(trimmed)

\* the inner loop of to18CharId from j on: flags += 1 << j
RECURSIVE chunkFlags(_, _, _, _)
chunkFlags(id, i, j, flags) ==
    IF j >= 5 THEN flags
    ELSE chunkFlags(id, i, j + 1,
                    IF isUpperCase(id[i * 5 + j + 1]) THEN flags + 2 ^ j ELSE flags)

\* a length guard that lets every text of 15 characters or more through
to18CharIdFrom15(id) ==
    IF id = <<>> THEN <<>>
    ELSE LET t == trim(id)
         IN  IF Len(t) < 15 THEN t
             ELSE t \o [i \in 1..3 |-> SUFFIX_ALPHABET[chunkFlags(t, i - 1, 0, 0) + 1]]

to18CharId(id) ==
    IF id = <<>> THEN <<>>
    ELSE LET t == trim(id)
         IN  IF Len(t) = 18 THEN t
             ELSE IF Len(t) # 15 THEN t
             ELSE t \o [i \in 1..3 |-> SUFFIX_ALPHABET[chunkFlags(t, i - 1, 0, 0) + 1]]

----------------------------------------------------------------------------
(* The identifier and the link of a mapped record.                         *)

\* exactCandidates of getOpportunityID, route.ts 195-205
ExactIdCandidates ==
    << <<"O","p","p","o","r","t","u","n","i","t","y"," ","I","D">>, <<"O","p","p","o","r","t","u","n","i","t","y"," ","I","d">>, <<"O","p","p","o","r","t","u","n","i","t","y","I","d">>,
       <<"O","P","P","O","R","T","U","N","I","T","Y","_","I","D">>, <<"O","p","p"," ","I","D">>, <<"O","p","p"," ","I","d">>, <<"O","p","p","I","d">>, <<"I","d">>, <<"I","D">> >>

\* exactCandidates of getOpportunityID, route.ts 532-539
StrictIdCandidates ==
    << <<"O","p","p","o","r","t","u","n","i","t","y"," ","I","D">>, <<"O","p","p","o","r","t","u","n","i","t","y"," ","I","d">>, <<"O","P","P","O","R","T","U","N","I","T","Y","_","I","D">>,
       <<"I","d">>, <<"I","D">>, <<"O","p","p"," ","I","d">> >>

\* strategy 1 of getOpportunityID: the candidates one by one, strictly
RECURSIVE firstValidColumn(_, _)
firstValidColumn(row, c) ==
    IF c > Len(ExactIdCandidates) THEN <<>>
    ELSE LET id == findColumn(row, <<ExactIdCandidates[c]>>, TRUE)
         IN  IF id # <<>> /\ isValidOpportunityId(id) THEN to18CharId(trim(id))
             ELSE firstValidColumn(row, c + 1)

\* getOpportunityID of route.ts 193-252: the known columns, then the columns
\* whose name looks like an identifier's, then every value
getOpportunityID(row) ==
    LET byColumn == firstValidColumn(row, 1)
        valid(i) == row[i][2] # <<>> /\ isValidOpportunityId(row[i][2])
        idLike(i) ==
            LET lower == toLowerCase(row[i][1])
            IN  /\ includes(lower, <<"i","d">>) \/ includes(lower, <<"o","p","p">>)
                /\ ~includes(lower, <<"a","c","c","o","u","n","t">>)
                /\ ~includes(lower, <<"o","w","n","e","r">>)
        byName == {i \in 1..Len(row) : idLike(i) /\ valid(i)}
        byValue == {i \in 1..Len(row) : valid(i)}
    IN  IF byColumn # <<>> THEN byColumn
        ELSE IF byName # {} THEN to18CharId(trim(row[SetMin(byName)][2]))
        ELSE IF byValue # {} THEN to18CharId(trim(row[SetMin(byValue)][2]))
        ELSE <<>>

\* getOpportunityID of route.ts 529-563: the strict lookup with its sanity
\* check, then a column whose name contains "opportunity id"
getOpportunityIDLoose(row) ==
    LET id == findColumn(row, StrictIdCandidates, TRUE)
        loose(i) ==
            LET lower == toLowerCase(row[i][1])
            IN  /\ includes(lower, <<"o","p","p","o","r","t","u","n","i","t","y"," ","i","d">>)
                /\ ~includes(lower, <<"a","c","c","o","u","n","t">>)
                /\ ~includes(lower, <<"o","w","n","e","r">>)
                /\ ~includes(lower, <<"s","o","u","r","c","e">>)
                /\ ~includes(lower, <<"p","a","r","e","n","t">>)
        looseKeys == {i \in 1..Len(row) : loose(i)}
    IN  IF id # <<>> /\ Len(id) >= 15 /\ startsWith(id, s006) THEN id
        ELSE IF looseKeys # {} /\ row[SetMin(looseKeys)][1] # <<>>
        THEN row[SetMin(looseKeys)][2]
        ELSE <<>>

\* OPPORTUNITY_ID of COLUMN_MAP: column Q
COLUMN_OPPORTUNITY_ID == 16

\* validOppId of mapRowToOpportunity, part_002 103-106
validOppId(row) ==
    LET oppId == trim(cell(row, COLUMN_OPPORTUNITY_ID))
    IN  IF startsWith(oppId, s006) /\ (Len(oppId) = 15 \/ Len(oppId) = 18)
        THEN to18CharId(oppId)
        ELSE <<>>

\* String(idx) for a row index
RECURSIVE decimal(_)
decimal(n) ==
    IF n < 10 THEN <<Digits[n + 1]>>
    ELSE decimal(n \div 10) \o <<Digits[(n % 10) + 1]>>

\* `row-${idx}`
placeholder(idx) == <<"r","o","w","-">> \o decimal(idx)

\* `https://clarityai.lightning.force.com/lightning/r/Opportunity/${oppId}/view`
viewUrl(oppId) ==
    <<"https://clarityai.lightning.force.com/lightning/r/Opportunity/">>
        \o oppId \o <<"/view">>

\* the id and the url of the record mapToOpportunity (mapRowToOpportunity
\* in part_002) returns
idAndUrl(v, row, idx) ==
    LET oppId == CASE v = "R1" -> getOpportunityID(row)
                   [] v = "R2" -> getOpportunityIDLoose(row)
                   [] v = "U2" -> validOppId(row)
    IN  [id |-> IF oppId # <<>> THEN oppId ELSE placeholder(idx),
         url |-> IF oppId # <<>> THEN viewUrl(oppId) ELSE <<>>]

----------------------------------------------------------------------------
(* The column resolver of part_001 739-764, and the resolvers by revision. *)

\* rowKeys.find(k => norm(k).startsWith(norm(candidate)))
prefixKey(row, candidate) ==
    LET wanted == norm(candidate)
        hits == {i \in 1..Len(row) : startsWith(norm(row[i][1]), wanted)}
    IN  IF hits = {} THEN 0 ELSE SetMin(hits)

\* findColumn of part_001 739-764: exact, then starts-with; a key counts
\* only with a non-empty cell; there is no strict flag
findColumnPrefix(row, candidates) ==
    LET Hit(k) == Found(row, k) /\ row[k][2] # <<>>
        exact == {c \in 1..Len(candidates) : Hit(exactKey(row, candidates[c]))}
        prefix == {c \in 1..Len(candidates) : Hit(prefixKey(row, candidates[c]))}
    IN  IF exact # {} THEN row[exactKey(row, candidates[SetMin(exact)])][2]
        ELSE IF prefix # {} THEN row[prefixKey(row, candidates[SetMin(prefix)])][2]
        ELSE <<>>

\* findColumn as the revision `kind` has it
resolve(kind, row, candidates, strict) ==
    CASE kind = "route.ts" -> findColumn(row, candidates, strict)
      [] kind = "part_000" -> findColumnLoose(row, candidates)
      [] kind = "part_001" -> findColumnPrefix(row, candidates)

\* parseCSV as the revision `kind` has it: rows (part_002) or records
parse(kind, text) ==
    CASE kind = "part_002" -> parseCSVRows(text)
      [] kind = "route.ts" -> parseCSVRecords(text)
      [] kind = "part_000" -> parseCSVLines(text)

----------------------------------------------------------------------------
(* Amount normalizer. A number is a sign, a natural mantissa and a decimal  *)
(* scale, without trailing zeros in the fraction: equal numbers are equal   *)
(* records.                                                                *)

IsDigit(c) == \E i \in 1..Len(Digits) : Digits[i] = c

\* the number of digits of s from position `from` on, up to the first
\* character that is not a digit
digitRun(s, from) ==
    Cardinality({k \in from..Len(s) : \A i \in from..k : IsDigit(s[i])})

\* the natural number a string of digits writes
RECURSIVE natOf(_)
natOf(ds) ==
    IF ds = <<>> THEN 0
    ELSE 10 * natOf(SubSeq(ds, 1, Len(ds) - 1))
            + (CHOOSE i \in 0..9 : Digits[i + 1] = ds[Len(ds)])

RECURSIVE number(_, _, _)
number(neg, mant, scale) ==
    IF scale > 0 /\ mant % 10 = 0 THEN number(neg, mant \div 10, scale - 1)
    ELSE [neg |-> neg /\ mant # 0, mant |-> mant, scale |-> scale]

\* parseFloat(s), null for NaN: the longest prefix that is a decimal literal
\* (sign, digits, a point and digits); a second point or sign ends it
parseFloat(s) ==
    LET signed == s # <<>> /\ s[1] \in {"-", "+"}
        body == IF signed THEN Tail(s) ELSE s
        whole == digitRun(body, 1)
        point == whole < Len(body) /\ body[whole + 1] = "."
        frac == IF point THEN digitRun(body, whole + 2) ELSE 0
    IN  IF whole = 0 /\ frac = 0 THEN Null
        ELSE Some(number(signed /\ s[1] = "-",
                         natOf(SubSeq(body, 1, whole)
                                  \o SubSeq(body, whole + 2, whole + 1 + frac)),
                         frac))

\* value.replace(/[^...]/g, ""): the characters of `allowed`, in order
keepOnly(value, allowed) ==
    LET Kept(c) == c \in allowed
    IN  SelectSeq(value, Kept)

\* cleaned.match(/^([0-9.]*),(\d{1,2})$/): the position of the comma, 0
\* when the text does not match
europeanMatch(cleaned) ==
    LET commas == {p \in 1..Len(cleaned) : cleaned[p] = ","}
        c == CHOOSE p \in commas : TRUE
    IN  IF /\ Cardinality(commas) = 1
           /\ Len(cleaned) - c \in {1, 2}
           /\ \A i \in (c + 1)..Len(cleaned) : IsDigit(cleaned[i])
           /\ \A i \in 1..(c - 1) : IsDigit(cleaned[i]) \/ cleaned[i] = "."
        THEN c ELSE 0

\* parseAmount of route.ts 254-265: a decimal comma is told from thousands
\* commas
parseAmount(value) ==
    IF value = <<>> THEN Null
    ELSE LET digitChars == {Digits[i] : i \in 1..10}
             cleaned == keepOnly(value, digitChars \cup {".", ",", "-"})
             c == europeanMatch(cleaned)
         IN  IF c > 0
             THEN parseFloat(keepOnly(SubSeq(cleaned, 1, c - 1), digitChars)
                                \o <<".">> \o SubSeq(cleaned, c + 1, Len(cleaned)))
             ELSE parseFloat(keepOnly(cleaned, digitChars \cup {".", "-"}))

\* parseAmount of part_000 170-175: every comma is dropped
parseAmountPlain(value) ==
    IF value = <<>> THEN Null
    ELSE parseFloat(keepOnly(value, {Digits[i] : i \in 1..10} \cup {".", "-"}))

----------------------------------------------------------------------------
(* The functions applied on their own: their arguments.                    *)

\* the longest raw text handed to the parser
MaxTextLen == 5

vValid15 == <<"0","0","6","A","0","0","0","0","0","0","3","D","H","P","0">>

\* a 15-character cell whose chunk `chunk` (0..2) has an upper-case letter
\* exactly at the positions whose bit is set in `mask` (0..31)
patternId(chunk, mask) ==
    [k \in 1..15 |->
        IF (k - 1) \div 5 # chunk THEN vValid15[k]
        ELSE IF (mask \div (2 ^ ((k - 1) % 5))) % 2 = 1 THEN "Q" ELSE "q"]

\* cells of an identifier column
IdCells ==
    { vValid15, <<"0","0","5","A","0","0","0","0","0","0","3","D","H","P","0">>, <<"0","0","6","-","0","0","0","0","0","0","3","D","H","P","0">>, <<"0","0","6","A","0","0","0","0","0","0","3","D","H","P","0","I","A","O">>,
      <<" ","0","0","6","A","0","0","0","0","0","0","3","D","H","P","0"," ">>, <<"0","0","6","A","0","0","0","0","0","0","3","D","H","P","0","x">>, <<"N","/","A">>, <<" ","N","/","A">>, <<>>,
      <<"0","0","6","A","0","0","0","0","0","0","3","D","H","P"," ">> }

CanonicalizerArgs ==
    [fn : {"isValidOpportunityId", "to18CharId"},
     s : IdCells \cup {patternId(c, m) : c \in 0..2, m \in 0..31}]

\* a record (a positional row for part_002) with the cell in an identifier
\* column, and the index of the record in its bucket
MapperArgs ==
    LET keyed(key, c) == << <<sOpportunityName, vAcme>>, <<key, c>> >>
        positional(c) == [i \in 1..(COLUMN_OPPORTUNITY_ID + 1) |->
                             IF i = COLUMN_OPPORTUNITY_ID + 1 THEN c ELSE <<>>]
    IN  {[v |-> v, key |-> key, cellValue |-> c, row |-> keyed(key, c), idx |-> idx] :
            v \in {"R1", "R2"},
            key \in {<<"O","p","p","o","r","t","u","n","i","t","y"," ","I","D">>, <<"S","o","u","r","c","e"," ","O","p","p","o","r","t","u","n","i","t","y"," ","I","D">>},
            c \in IdCells, idx \in {0, 12}}
        \cup
        {[v |-> "U2", key |-> <<"O","p","p","o","r","t","u","n","i","t","y"," ","I","D">>, cellValue |-> c,
          row |-> positional(c), idx |-> idx] : c \in IdCells, idx \in {0, 12}}

\* records under differently labelled headers, candidate lists, both modes
ResolverArgs ==
    LET x == <<"x">>
        y == <<"y">>
        records ==
            { << <<<<"S","o","u","r","c","e"," ","O","p","p","o","r","t","u","n","i","t","y"," ","I","D">>, x>> >>,
              << <<<<"O","p","p","o","r","t","u","n","i","t","y"," ","I","D"," ","(","1","8"," ","c","h","a","r",")">>, x>> >>,
              << <<<<"O","p","p","o","r","t","u","n","i","t","y"," ","I","D">>, <<>> >> >>,
              << <<<<"I","d">>, x>>, <<<<"O","p","p","o","r","t","u","n","i","t","y"," ","I","D">>, y>> >>,
              << <<sStage, <<>> >>, <<sStage_Name, y>> >>,
              << <<<<"P","r","e","v","i","o","u","s"," ","S","t","a","g","e">>, x>>, <<sStage, y>> >>,
              << <<<<"S","t","a","g","e"," ","N","a","m","e"," ","(","o","l","d",")">>, x>>, <<<<" ","s","t","a","g","e"," ","n","a","m","e"," ">>, y>> >>,
              << <<sAccountName, x>> >> }
    IN  [kind : {"route.ts", "part_000", "part_001"},
         row : records,
         candidates : { <<<<"O","p","p","o","r","t","u","n","i","t","y"," ","I","D">>, <<"I","d">>>>, <<sStage, sStage_Name>> },
         strict : BOOLEAN]

\* a grid written with every field in quotes, inner quotes doubled, fields
\* joined by commas and rows by newlines
encode(grid) ==
    LET quoted(f) ==
            <<"\"">> \o joinWith([i \in 1..Len(f) |->
                                     IF f[i] = "\"" THEN <<"\"", "\"">> ELSE <<f[i]>>],
                                 <<>>, 1) \o <<"\"">>
    IN  joinWith([r \in 1..Len(grid) |->
                     joinWith([c \in 1..Len(grid[r]) |-> quoted(grid[r][c])], <<",">>, 1)],
                 <<"\n">>, 1)

\* a header row and one data row of one or two fields
FieldGrids ==
    LET fields == { <<>>, <<"a">>, <<"a", ",", "b">>, <<"a", "\n", "b">>,
                    <<"a", "\"", "b">>, <<"a", " ">> }
        h == <<"h">>
        k == <<"k">>
    IN  {<< <<h>>, <<f>> >> : f \in fields}
        \cup {<< <<h, k>>, <<f, g>> >> : f \in fields, g \in fields}

\* the text of a grid, or any short text of letters, commas, line breaks
\* and quotes
ParserArgs ==
    {[kind |-> k, text |-> encode(g), grid |-> Some(g)] :
        k \in {"part_002", "route.ts", "part_000"}, g \in FieldGrids}
    \cup
    {[kind |-> k, text |-> t, grid |-> Null] :
        k \in {"part_002", "route.ts"},
        t \in UNION {[1..n -> {"a", ",", "\n", "\""}] : n \in 0..MaxTextLen}}

\* amounts in both renderings, amount strings with and without a minus
\* sign, and strings without a digit
AmountArgs ==
    LET grouped(ds, sep) ==
            joinWith([i \in 1..Len(ds) |->
                         (IF i > 1 /\ (Len(ds) - i + 1) % 3 = 0 THEN sep ELSE <<>>)
                             \o <<ds[i]>>], <<>>, 1)
        whole(units, sep, grouping) ==
            IF grouping THEN grouped(decimal(units), sep) ELSE decimal(units)
        amounts == [units : {0, 7, 12, 999, 1234, 1234567},
                    cents : {[digits |-> <<"5">>, value |-> 5, places |-> 1],
                             [digits |-> <<"5","0">>, value |-> 50, places |-> 2],
                             [digits |-> <<"0","5">>, value |-> 5, places |-> 2],
                             [digits |-> <<"8","9">>, value |-> 89, places |-> 2]}]
        point(a, pre, g) == pre \o whole(a.units, <<",">>, g) \o <<".">> \o a.cents.digits
        comma(a, pre, g) == pre \o whole(a.units, <<".">>, g) \o <<",">> \o a.cents.digits
        none == [units |-> 0, cents |-> [digits |-> <<>>, value |-> 0, places |-> 0]]
        unsigned == {point(a, <<>>, g) : a \in amounts, g \in BOOLEAN}
                       \cup {comma(a, <<>>, g) : a \in amounts, g \in BOOLEAN}
                       \cup {<<"1","2">>, <<"1",",","2","3","4">>, <<"$"," ","4","0">>}
        digitless == {<<>>, <<"a","b","c">>, <<"-">>, <<".">>, <<",">>, <<"N","/","A">>, <<"$">>, <<"-",".",",">>, <<"-","-">>}
    IN  {[kind |-> k, rel |-> "renderings", s |-> point(a, pre, g), t |-> comma(a, pre, g),
          amount |-> a] :
            k \in {"route.ts", "part_000"}, a \in amounts, pre \in {<<>>, <<"$">>},
            g \in BOOLEAN}
        \cup
        {[kind |-> "route.ts", rel |-> "negation", s |-> s, t |-> <<"-">> \o s, amount |-> none] :
            s \in unsigned}
        \cup
        {[kind |-> k, rel |-> "single", s |-> s, t |-> s, amount |-> none] :
            k \in {"route.ts", "part_000"}, s \in digitless}

\* grids for the record mapper: labelled and unlabelled columns, rows
\* shorter and longer than the header row; as a grid, or as its text
RecordArgs ==
    LET h == <<"h">>
        k == <<"k">>
        headers == { <<h>>, <<h, k>>, << <<>>, k>>, <<h, <<>> >> }
        dataRows == { << <<"x">> >>, << <<"x">>, <<"y">> >>,
                      << <<"x">>, <<"y">>, <<"z">> >>, << <<>>, <<"y">> >> }
        grids == { <<>> } \cup {<<hd>> : hd \in headers}
                    \cup {<<hd, r>> : hd \in headers, r \in dataRows}
                    \cup {<<hd, r, q>> : hd \in headers, r \in dataRows, q \in dataRows}
    IN  [kind : {"parseCSV", "rowsToRecords"}, grid : grids]

\* two different 15-character identifiers: any two of the cells patternId
\* gives, those that differ only in the case of letters among them
PairArgs ==
    {[x |-> patternId(p[1] \div 32, p[1] % 32), y |-> patternId(p[2] \div 32, p[2] % 32)] :
        p \in {q \in (0..95) \X (0..95) : q[1] < q[2]}}

\* the most records of a sheet a bucket is taken from
MaxBucketRows == 2

\* the records of a sheet (positional rows for part_002), each with a stage
\* and a cell in the identifier column, and the stage keyword of the bucket
BucketArgs ==
    LET cells == {<<>>, vValid15, <<"r","o","w","-","0">>, <<"r","o","w","-","1">>}
        stages == {vDueDiligence, vClosedWon}
        keyed(st, c) == << <<sStage, st>>, <<<<"O","p","p","o","r","t","u","n","i","t","y"," ","I","D">>, c>> >>
        positional(st, c) == [i \in 1..(COLUMN_OPPORTUNITY_ID + 1) |->
                                 IF i = COLUMN_STAGE + 1 THEN st
                                 ELSE IF i = COLUMN_OPPORTUNITY_ID + 1 THEN c ELSE <<>>]
        sheets(pool) == UNION {[1..n -> pool] : n \in 1..MaxBucketRows}
    IN  {[v |-> v, rows |-> rs] :
            v \in {"R1", "R2"}, rs \in sheets({keyed(st, c) : st \in stages, c \in cells})}
        \cup
        {[v |-> "U2", rows |-> rs] :
            rs \in sheets({positional(st, c) : st \in stages, c \in cells})}

----------------------------------------------------------------------------
(* The functions applied on their own: one application each.               *)

InitFunctions ==
    /\ variant = "R1" /\ email = "" /\ rawKey = NoKey
    /\ pc = "idle" /\ step = 1 /\ rows = Null /\ source = "" /\ entered = <<>>
    /\ calls = [m \in {SA, AK} |-> 0]
    /\ urlIdx = 0 /\ attempt = 0
    /\ csvCalls = [u \in 1..Len(urls(variant)) |-> 0]
    /\ acceptedBody = Null
    /\ response = [status |-> 0]
    /\ \/ subject = "canonicalizer" /\ arg \in CanonicalizerArgs
       \/ subject = "mapper" /\ arg \in MapperArgs
       \/ subject = "resolver" /\ arg \in ResolverArgs
       \/ subject = "parser" /\ arg \in ParserArgs
       \/ subject = "records" /\ arg \in RecordArgs
       \/ subject = "amount" /\ arg \in AmountArgs
       \/ subject = "pair" /\ arg \in PairArgs
    /\ result = Null
    /\ dashboard = DashboardOnMount

\* isValidOpportunityId(s) or to18CharId(s) returns
ApplyCanonicalizer ==
    /\ subject = "canonicalizer" /\ result.isNull
    /\ result' = Some(IF arg.fn = "to18CharId" THEN to18CharId(arg.s)
                      ELSE isValidOpportunityId(arg.s))
    /\ UNCHANGED <<variant, email, rawKey, pc, step, rows, source, entered, calls,
                   urlIdx, attempt, csvCalls, acceptedBody, response, subject, arg,
                   dashboard>>

\* mapToOpportunity(row, idx) returns
ApplyMapper ==
    /\ subject = "mapper" /\ result.isNull
    /\ result' = Some(idAndUrl(arg.v, arg.row, arg.idx))
    /\ UNCHANGED <<variant, email, rawKey, pc, step, rows, source, entered, calls,
                   urlIdx, attempt, csvCalls, acceptedBody, response, subject, arg,
                   dashboard>>

\* findColumn(row, candidates, strict) returns
ApplyResolver ==
    /\ subject = "resolver" /\ result.isNull
    /\ result' = Some(resolve(arg.kind, arg.row, arg.candidates, arg.strict))
    /\ UNCHANGED <<variant, email, rawKey, pc, step, rows, source, entered, calls,
                   urlIdx, attempt, csvCalls, acceptedBody, response, subject, arg,
                   dashboard>>

\* parseCSV(text) returns
ApplyParser ==
    /\ subject = "parser" /\ result.isNull
    /\ result' = Some(parse(arg.kind, arg.text))
    /\ UNCHANGED <<variant, email, rawKey, pc, step, rows, source, entered, calls,
                   urlIdx, attempt, csvCalls, acceptedBody, response, subject, arg,
                   dashboard>>

\* the records of a grid: rowsToRecords(raw) for a grid of the API methods,
\* parseCSV(text) for the text of the grid
ApplyRecords ==
    /\ subject = "records" /\ result.isNull
    /\ result' = Some(IF arg.kind = "rowsToRecords" THEN rowsToRecords(Some(arg.grid))
                      ELSE parseCSVRecords(toCSV(arg.grid)))
    /\ UNCHANGED <<variant, email, rawKey, pc, step, rows, source, entered, calls,
                   urlIdx, attempt, csvCalls, acceptedBody, response, subject, arg,
                   dashboard>>

\* parseAmount(s) and parseAmount(t) return
ApplyAmount ==
    /\ subject = "amount" /\ result.isNull
    /\ result' = Some(IF arg.kind = "route.ts"
                      THEN [ofS |-> parseAmount(arg.s), ofT |-> parseAmount(arg.t)]
                      ELSE [ofS |-> parseAmountPlain(arg.s),
                            ofT |-> parseAmountPlain(arg.t)])
    /\ UNCHANGED <<variant, email, rawKey, pc, step, rows, source, entered, calls,
                   urlIdx, attempt, csvCalls, acceptedBody, response, subject, arg,
                   dashboard>>

\* to18CharId(x) and to18CharId(y) return
ApplyPair ==
    /\ subject = "pair" /\ result.isNull
    /\ result' = Some([ofX |-> to18CharId(arg.x), ofY |-> to18CharId(arg.y)])
    /\ UNCHANGED <<variant, email, rawKey, pc, step, rows, source, entered, calls,
                   urlIdx, attempt, csvCalls, acceptedBody, response, subject, arg,
                   dashboard>>

\* rows.filter(...) of filterOpps
keptRows(v, records, stageKeyword) ==
    IF v = "U2" THEN filterRowsByPosition(records, stageKeyword)
    ELSE filterRows(records, stageKeyword)

\* .map((row, idx) => mapToOpportunity(row, idx)): the id and the url of
\* every record kept
bucketIds(v, kept) == [i \in 1..Len(kept) |-> idAndUrl(v, kept[i], i - 1)]

\* filterOpps("due diligence") returns
ApplyBucket ==
    /\ subject = "bucket" /\ result.isNull
    /\ \E kept \in {keptRows(arg.v, arg.rows, kwDueDiligence)} :
           result' = Some(bucketIds(arg.v, kept))
    /\ UNCHANGED <<variant, email, rawKey, pc, step, rows, source, entered, calls,
                   urlIdx, attempt, csvCalls, acceptedBody, response, subject, arg,
                   dashboard>>

\* one bucket taken from a sheet
InitBucket ==
    /\ variant = "R1" /\ email = "" /\ rawKey = NoKey
    /\ pc = "idle" /\ step = 1 /\ rows = Null /\ source = "" /\ entered = <<>>
    /\ calls = [m \in {SA, AK} |-> 0]
    /\ urlIdx = 0 /\ attempt = 0
    /\ csvCalls = [u \in 1..Len(urls(variant)) |-> 0]
    /\ acceptedBody = Null
    /\ response = [status |-> 0]
    /\ subject = "bucket" /\ arg \in BucketArgs /\ result = Null
    /\ dashboard = DashboardOnMount

SpecBucket == InitBucket /\ [][ApplyBucket]_vars

NextFunctions ==
    \/ ApplyCanonicalizer
    \/ ApplyMapper
    \/ ApplyResolver
    \/ ApplyParser
    \/ ApplyRecords
    \/ ApplyAmount
    \/ ApplyPair

SpecFunctions == InitFunctions /\ [][NextFunctions]_vars

\* the function has returned
Returned(s) == subject = s /\ ~result.isNull

----------------------------------------------------------------------------
(* The Dashboard component and its manual refresh (route.ts 951-1000,      *)
(* dashboard-header.tsx 37-42).                                            *)

\* the most clicks on Refresh
MaxRefreshes == 2

\* the most revalidations the refresh interval starts
MaxRevalidations == 2

\* useState(false): isRefreshing
isRefreshing == dashboard.isRefreshing

\* isLoading of a hook: a request is in flight and no data is loaded yet
isLoading(d) == dashboard.fetching[d] /\ ~dashboard.data[d]

\* isRefreshing={isRefreshing || jiraLoading || sfLoading}, disabled={isRefreshing}
disabled == isRefreshing \/ isLoading("tickets") \/ isLoading("opportunities")

\* a revalidation whose failed fetch rejects the promise the caller awaits
mutateRejects(ok) == IF ok THEN "fulfilled" ELSE "rejected"

\* the promise mutateJira() or mutateSf() returned, once the revalidation it
\* started has ended: the hook keeps a failed fetch in `error`, and the
\* promise is fulfilled either way
mutateSettles(ok) == "fulfilled"

\* Promise.all over the two promises
promiseAll(promise) ==
    IF \E d \in Datasets : promise[d] = "rejected" THEN "rejected"
    ELSE IF \A d \in Datasets : promise[d] = "fulfilled" THEN "fulfilled"
    ELSE "pending"

InitDashboard ==
    /\ variant = "R1" /\ email = "" /\ rawKey = NoKey
    /\ pc = "idle" /\ step = 1 /\ rows = Null /\ source = "" /\ entered = <<>>
    /\ calls = [m \in {SA, AK} |-> 0]
    /\ urlIdx = 0 /\ attempt = 0
    /\ csvCalls = [u \in 1..Len(urls(variant)) |-> 0]
    /\ acceptedBody = Null
    /\ response = [status |-> 0]
    /\ subject = "dashboard" /\ arg = Null /\ result = Null
    /\ dashboard = DashboardOnMount

\* the fetcher of a hook comes back: fetch(url).then(res => res.json())
\* resolves (onSuccess sets lastUpdated) or rejects
FetchSettles(d, ok) ==
    /\ subject = "dashboard" /\ dashboard.fetching[d]
    /\ dashboard' = [dashboard EXCEPT
           !.fetching[d] = FALSE,
           !.data[d] = @ \/ ok,
           !.error[d] = ~ok,
           !.lastUpdated = @ \/ ok,
           !.promise[d] = IF @ = "pending" THEN mutateSettles(ok) ELSE @]
    /\ UNCHANGED <<variant, email, rawKey, pc, step, rows, source, entered, calls,
                   urlIdx, attempt, csvCalls, acceptedBody, response, subject, arg,
                   result>>

\* refreshInterval: 5 * 60 * 1000
PeriodicRevalidate(d) ==
    /\ subject = "dashboard" /\ ~dashboard.fetching[d]
    /\ dashboard.revalidations < MaxRevalidations
    /\ dashboard' = [dashboard EXCEPT !.fetching[d] = TRUE, !.revalidations = @ + 1]
    /\ UNCHANGED <<variant, email, rawKey, pc, step, rows, source, entered, calls,
                   urlIdx, attempt, csvCalls, acceptedBody, response, subject, arg,
                   result>>

\* a click on Refresh: handleRefresh up to its await
HandleRefresh ==
    /\ subject = "dashboard" /\ ~disabled
    /\ dashboard.refreshes < MaxRefreshes
    /\ dashboard' = [dashboard EXCEPT
           !.isRefreshing = TRUE,
           !.fetching = [d \in Datasets |-> TRUE],
           !.promise = [d \in Datasets |-> "pending"],
           !.awaiting = TRUE,
           !.refreshes = @ + 1]
    /\ UNCHANGED <<variant, email, rawKey, pc, step, rows, source, entered, calls,
                   urlIdx, attempt, csvCalls, acceptedBody, response, subject, arg,
                   result>>

\* handleRefresh after its await: Promise.all is fulfilled and the two
\* setters run, or it is rejected and the await throws
ResumeRefresh ==
    /\ subject = "dashboard" /\ dashboard.awaiting
    /\ promiseAll(dashboard.promise) # "pending"
    /\ dashboard' =
           IF promiseAll(dashboard.promise) = "fulfilled"
           THEN [dashboard EXCEPT !.lastUpdated = TRUE,
                                  !.isRefreshing = FALSE,
                                  !.awaiting = FALSE,
                                  !.promise = [d \in Datasets |-> "none"]]
           ELSE [dashboard EXCEPT !.awaiting = FALSE]
    /\ UNCHANGED <<variant, email, rawKey, pc, step, rows, source, entered, calls,
                   urlIdx, attempt, csvCalls, acceptedBody, response, subject, arg,
                   result>>

NextDashboard ==
    \/ \E d \in Datasets : \E ok \in BOOLEAN : FetchSettles(d, ok)
    \/ \E d \in Datasets : PeriodicRevalidate(d)
    \/ HandleRefresh
    \/ ResumeRefresh

\* a fetch in flight comes back, and a continuation that can run does
SpecDashboard ==
    /\ InitDashboard /\ [][NextDashboard]_vars
    /\ WF_vars(ResumeRefresh)
    /\ \A d \in Datasets : WF_vars(\E ok \in BOOLEAN : FetchSettles(d, ok))

----------------------------------------------------------------------------
(* Properties of the identifier, the resolver and the parser.              *)

\* the validity rule of the contract: trimmed, the prefix "006", 15 or 18
\* characters, ASCII letters and digits only
FollowsIdRule(s) ==
    LET t == trim(s)
        allowed == {UpperChars[i] : i \in 1..26} \cup {LowerChars[i] : i \in 1..26}
                      \cup {Digits[i] : i \in 1..10}
    IN  /\ startsWith(t, s006)
        /\ Len(t) \in {15, 18}
        /\ \A i \in 1..Len(t) : t[i] \in allowed

\* an 18-character identifier that follows the rule
Canonical(id) == Len(id) = 18 /\ FollowsIdRule(id)

\* C12: the id of a mapped record is an 18-character identifier following
\* the validity rule or the placeholder row-<index>; its url is non-empty
\* only with such an identifier, and then contains it.
C12_IdCanonicalOrPlaceholder ==
    Returned("mapper") =>
        /\ Canonical(result.val.id) \/ result.val.id = <<"r","o","w","-">> \o decimal(arg.idx)
        /\ result.val.url # <<>> =>
              Canonical(result.val.id) /\ includes(result.val.url, result.val.id)

\* the candidates (by position) that some key of the record equals after
\* lower-casing and trimming both
matchedCandidates(row, candidates) ==
    {c \in 1..Len(candidates) :
        \E i \in 1..Len(row) : norm(row[i][1]) = norm(candidates[c])}

\* the value of the first key equal to the earliest such candidate
earliestExactValue(row, candidates) ==
    LET c == SetMin(matchedCandidates(row, candidates))
        i == SetMin({j \in 1..Len(row) : norm(row[j][1]) = norm(candidates[c])})
    IN  row[i][2]

\* C13: whenever some key equals some candidate after lower-casing and
\* trimming, findColumn returns the value of the key matched by the earliest
\* such candidate, whatever other keys contain a candidate as a substring.
C13_ExactMatchWins ==
    (Returned("resolver") /\ arg.kind \in {"route.ts", "part_000"}
        /\ matchedCandidates(arg.row, arg.candidates) # {}) =>
        result.val = earliestExactValue(arg.row, arg.candidates)

\* C14: with the candidates Opportunity ID, Id and a record whose only key
\* is Source Opportunity ID with a non-empty value, findColumn returns the
\* empty string in strict mode and that value otherwise; and a strict-mode
\* result is non-empty only if some key equals a candidate exactly.
C14_StrictIsExactOnly ==
    (Returned("resolver") /\ arg.kind \in {"route.ts", "part_001"}) =>
        /\ (/\ arg.candidates = <<<<"O","p","p","o","r","t","u","n","i","t","y"," ","I","D">>, <<"I","d">>>>
            /\ Len(arg.row) = 1
            /\ arg.row[1][1] = <<"S","o","u","r","c","e"," ","O","p","p","o","r","t","u","n","i","t","y"," ","I","D">>
            /\ arg.row[1][2] # <<>>) =>
               result.val = IF arg.strict THEN <<>> ELSE arg.row[1][2]
        /\ (arg.strict /\ result.val # <<>>) =>
               matchedCandidates(arg.row, arg.candidates) # {}

\* C15: isValidOpportunityId(s) is true exactly when s follows the validity
\* rule, and a mapper accepts the cell of the identifier column as the
\* identifier of the record exactly when the cell follows the rule.
C15_OneValidityRule ==
    /\ (Returned("canonicalizer") /\ arg.fn = "isValidOpportunityId") =>
           result.val = FollowsIdRule(arg.s)
    /\ (Returned("mapper") /\ arg.v \in {"R1", "U2"} /\ arg.key = <<"O","p","p","o","r","t","u","n","i","t","y"," ","I","D">>) =>
           (result.val.id # placeholder(arg.idx)) = FollowsIdRule(arg.cellValue)

\* the flag word of chunk i (0..2) of x: the sum of 2^j over the j in 0..4
\* for which character 5i+j of x is an upper-case ASCII letter
caseFlags(x, i) ==
    LET upper == {UpperChars[k] : k \in 1..26}
        bit(j) == IF x[5 * i + j + 1] \in upper THEN 2 ^ j ELSE 0
    IN  bit(0) + bit(1) + bit(2) + bit(3) + bit(4)

\* x followed by the three characters its flag words select
withCaseSuffix(x) ==
    LET alphabet == <<"A","B","C","D","E","F","G","H","I","J","K","L","M","N","O","P","Q","R","S","T","U","V","W","X","Y","Z","0","1","2","3","4","5">>
    IN  x \o [i \in 1..3 |-> alphabet[caseFlags(x, i - 1) + 1]]

\* C16 (as stated): for every 15-character input x, to18CharId(x) is x
\* followed by the three characters at the indexes f_0, f_1, f_2 of the
\* alphabet, f_i the flag word of chunk i of x.
C16_SuffixOfInput ==
    (Returned("canonicalizer") /\ arg.fn = "to18CharId" /\ Len(arg.s) = 15) =>
        result.val = withCaseSuffix(arg.s)

\* C16 (amended): for every input whose text without surrounding whitespace
\* has 15 characters, to18CharId returns that text followed by the three
\* characters its flag words select.
C16_SuffixOfTrimmedInput ==
    (Returned("canonicalizer") /\ arg.fn = "to18CharId" /\ Len(trim(arg.s)) = 15) =>
        result.val = withCaseSuffix(trim(arg.s))

\* C16: a 15-character identifier whose first chunk is all upper-case has
\* been extended, its first suffix character being the last of the alphabet
C16_Witness ==
    /\ Returned("canonicalizer") /\ arg.fn = "to18CharId"
    /\ arg.s = patternId(0, 31)
    /\ Len(result.val) = 18 /\ result.val[16] = "5"

\* C17 (as stated): to18CharId returns its input unchanged when the input
\* has 18 characters and when its length is neither 15 nor 18; applied to
\* its own result for a 15-character input with the prefix, it returns that
\* result.
C17_UnchangedOrIdempotent ==
    (Returned("canonicalizer") /\ arg.fn = "to18CharId") =>
        /\ Len(arg.s) = 18 => result.val = arg.s
        /\ Len(arg.s) \notin {15, 18} => result.val = arg.s
        /\ (Len(arg.s) = 15 /\ startsWith(arg.s, <<"0","0","6">>)) =>
               to18CharId(result.val) = result.val

\* C17 (amended): to18CharId returns its input without the surrounding
\* whitespace, and otherwise unchanged, when that text has 18 characters and
\* when its length is neither 15 nor 18; applied to its own result for a
\* 15-character input with the prefix, it returns that result.
C17_TrimmedUnchangedOrIdempotent ==
    (Returned("canonicalizer") /\ arg.fn = "to18CharId") =>
        /\ Len(trim(arg.s)) = 18 => result.val = trim(arg.s)
        /\ Len(trim(arg.s)) \notin {15, 18} => result.val = trim(arg.s)
        /\ (Len(arg.s) = 15 /\ startsWith(arg.s, <<"0","0","6">>)) =>
               to18CharId(result.val) = result.val

\* C17: an 18-character identifier has come back as it went in
C17_Witness ==
    /\ Returned("canonicalizer") /\ arg.fn = "to18CharId"
    /\ Len(arg.s) = 18 /\ startsWith(arg.s, <<"0","0","6">>)
    /\ result.val = arg.s

\* the records a grid stands for: one per data row, each cell under the
\* label of its column
gridRecords(grid) ==
    [r \in 1..(Len(grid) - 1) |->
        [c \in 1..Len(grid[1]) |-> <<grid[1][c], grid[r + 1][c]>>]]

\* C18: a grid written with every field in quotes and inner quotes doubled,
\* fields joined by commas and rows by newlines, parses back to rows whose
\* fields are exactly the fields written.
C18_RoundTrip ==
    (Returned("parser") /\ ~arg.grid.isNull) =>
        /\ arg.kind = "part_002" => result.val = arg.grid.val
        /\ arg.kind = "route.ts" => result.val = gridRecords(arg.grid.val)

\* C19: a line break or a comma between an opening and its closing quote
\* ends neither the field nor the row: the data row of a grid with such a
\* cell parses to one record, and the cell is one field of it.
C19_QuotedBreaksStayInField ==
    (Returned("parser") /\ ~arg.grid.isNull /\ arg.kind \in {"route.ts", "part_000"}) =>
        LET g == arg.grid.val
        IN  \A c \in 1..Len(g[2]) :
                (includes(g[2][c], <<"\n">>) \/ includes(g[2][c], <<",">>)) =>
                    /\ Len(result.val) = 1
                    /\ Len(result.val[1]) >= c
                    /\ result.val[1][c] = <<g[1][c], g[2][c]>>

\* the line breaks of a text that stand outside quotes: those with an even
\* number of quote characters before them
unquotedBreaks(t) ==
    {p \in 1..Len(t) :
        /\ t[p] = "\n"
        /\ Cardinality({q \in 1..(p - 1) : t[q] = "\""}) % 2 = 0}

\* the rows of a text: one for each unquoted line break, and one more for
\* the characters after the last of them, if there are any
rowsWritten(t) ==
    LET breaks == unquotedBreaks(t)
        last == IF breaks = {} THEN 0
                ELSE CHOOSE p \in breaks : \A q \in breaks : q <= p
    IN  Cardinality(breaks) + (IF last < Len(t) THEN 1 ELSE 0)

\* C20: a final row that no line break terminates is emitted as the last
\* row, and a text that ends with a line break yields no row after its last
\* one: the parser emits as many rows as the text has (for route.ts: their
\* records, one for each row after the header row).
C20_FinalRowEmittedOnce ==
    (/\ Returned("parser") /\ arg.grid.isNull
     /\ Cardinality({q \in 1..Len(arg.text) : arg.text[q] = "\""}) % 2 = 0) =>
        LET n == rowsWritten(arg.text)
        IN  /\ arg.kind = "part_002" => Len(result.val) = n
            /\ arg.kind = "route.ts" =>
                   Len(result.val) = IF n < 2 THEN 0 ELSE n - 1

\* the largest member of a set of positions, 0 for none
lastOf(S) == IF S = {} THEN 0 ELSE CHOOSE p \in S : \A q \in S : q <= p

\* the positions of t before position `upto` that hold a character of
\* `chars` outside quotes
unquotedAt(t, chars, upto) ==
    {p \in 1..(upto - 1) :
        /\ t[p] \in chars
        /\ Cardinality({q \in 1..(p - 1) : t[q] = "\""}) % 2 = 0}

\* C21: the parser returns rows for every text; when a quote is opened and
\* never closed, no comma or line break after it ends the field or the row:
\* they stay in the field (which is trimmed like every field), and the field
\* is the last one of a final row.
C21_OpenQuoteAbsorbsRest ==
    (/\ Returned("parser") /\ arg.grid.isNull
     /\ Cardinality({q \in 1..Len(arg.text) : arg.text[q] = "\""}) % 2 = 1) =>
        LET t == arg.text
            open == lastOf({q \in 1..Len(t) : t[q] = "\""})
            tail == SubSeq(t, open + 1, Len(t))
            breaks == unquotedAt(t, {"\n"}, open)
            commas == {p \in unquotedAt(t, {","}, open) : p > lastOf(breaks)}
            seg == SubSeq(t, lastOf(unquotedAt(t, {",", "\n"}, open)) + 1, open - 1)
            n == Cardinality(breaks) + 1
        IN  /\ arg.kind = "route.ts" =>
                   Len(result.val) = IF n < 2 THEN 0 ELSE n - 1
            /\ arg.kind = "part_002" =>
                   /\ Len(result.val) = n
                   /\ Len(result.val[n]) = Cardinality(commas) + 1
                   /\ (\A i \in 1..Len(seg) : seg[i] # "\"") =>
                          result.val[n][Cardinality(commas) + 1] = trim(seg \o tail)

\* a label that is not the empty string
IsLabelled(entry) == entry[1] # <<>>

\* the record of a data row under a header row: for each non-empty label,
\* in order, the cell of its column, or the empty string without one
recordUnder(header, dataRow) ==
    SelectSeq([i \in 1..Len(header) |->
                  <<header[i], IF i <= Len(dataRow) THEN dataRow[i] ELSE <<>> >>],
              IsLabelled)

\* C22: the record mapper returns one record for each data row, in order;
\* the keys of a record are exactly the non-empty labels of the header row,
\* each with the cell of its column or the empty string; no record has the
\* empty string as a key; a grid of fewer than 2 rows has no record.
C22_RecordsFollowHeader ==
    Returned("records") =>
        /\ Len(arg.grid) < 2 => result.val = <<>>
        /\ Len(arg.grid) >= 2 =>
               result.val = [r \in 1..(Len(arg.grid) - 1) |->
                                recordUnder(arg.grid[1], arg.grid[r + 1])]
        /\ \A r \in 1..Len(result.val) : ~hasKey(result.val[r], <<>>)

\* the number v is units and cents/10^places
IsAmount(v, amount) ==
    /\ ~v.isNull /\ ~v.val.neg
    /\ v.val.scale <= amount.cents.places
    /\ v.val.mant * 10 ^ (amount.cents.places - v.val.scale)
          = amount.units * 10 ^ amount.cents.places + amount.cents.value

\* C23: parseAmount returns the same number, the amount, for the
\* decimal-point and the decimal-comma rendering of an amount with one or
\* two decimal digits, and null for the empty string and for every string
\* without a digit.
C23_BothRenderingsOneAmount ==
    Returned("amount") =>
        /\ arg.rel = "renderings" =>
               /\ IsAmount(result.val.ofS, arg.amount)
               /\ IsAmount(result.val.ofT, arg.amount)
        /\ (arg.rel = "single" /\ \A i \in 1..Len(arg.s) : arg.s[i] \notin {Digits[d] : d \in 1..10}) =>
               result.val.ofS.isNull

\* C29: for an amount string s without a minus sign that parseAmount maps
\* to a number v, parseAmount maps the string "-" followed by s to -v, in
\* both conventions.
C29_MinusNegates ==
    (Returned("amount") /\ arg.rel = "negation" /\ ~result.val.ofS.isNull) =>
        /\ ~result.val.ofT.isNull
        /\ result.val.ofT.val.mant = result.val.ofS.val.mant
        /\ result.val.ofT.val.scale = result.val.ofS.val.scale
        /\ result.val.ofT.val.neg = (~result.val.ofS.val.neg /\ result.val.ofS.val.mant # 0)

\* C24: the configured flag of an answer says whether the credentials are
\* present, whatever became of the fetch: it is true exactly when the
\* service-account email and the key are both set.
C24_ConfiguredFollowsCredentials ==
    (Answered /\ Has(response, "configured")) =>
        response.configured = (email # "" /\ rawKey.len > 0)

\* C25: the identifier of an Opportunity is never taken from a Source
\* Opportunity ID column: a record whose only cell following the validity
\* rule is under that key gets the placeholder row-<index> as its id and an
\* empty url.
C25_NeverFromSourceColumn ==
    (/\ Returned("mapper")
     /\ arg.key = <<"S","o","u","r","c","e"," ","O","p","p","o","r","t","u","n","i","t","y"," ","I","D">>
     /\ FollowsIdRule(arg.cellValue)) =>
        /\ result.val.id = placeholder(arg.idx)
        /\ result.val.url = <<>>

\* C26: whatever the key and the email are, at most one of the
\* service-account method and the api-key method is eligible to issue a
\* request: never do both get past their early returns on one key, and never
\* do both issue a request while one answer is prepared.
C26_OneMethodPerKey ==
    /\ ~(Configured(variant, SA, email, rawKey) /\ Configured(variant, AK, email, rawKey))
    /\ ~(calls[SA] > 0 /\ calls[AK] > 0)

\* C27: the 18-character forms of two different 15-character alphanumeric
\* identifiers, two that differ only in letter case included, still differ
\* when compared without regard to case, and the first 15 characters of
\* to18CharId(x) are x itself.
C27_CaseFoldedFormsDiffer ==
    (/\ Returned("pair")
     /\ Len(arg.x) = 15 /\ isAlphanumeric(arg.x)
     /\ Len(arg.y) = 15 /\ isAlphanumeric(arg.y)
     /\ arg.x # arg.y) =>
        /\ Len(result.val.ofX) = 18 /\ Len(result.val.ofY) = 18
        /\ toLowerCase(result.val.ofX) # toLowerCase(result.val.ofY)
        /\ SubSeq(result.val.ofX, 1, 15) = arg.x
        /\ SubSeq(result.val.ofY, 1, 15) = arg.y

\* C27: two identifiers that differ only in the case of their letters have
\* been given their 18-character forms
C27_Witness ==
    /\ Returned("pair")
    /\ arg.x # arg.y /\ toLowerCase(arg.x) = toLowerCase(arg.y)
    /\ Len(result.val.ofX) = 18 /\ Len(result.val.ofY) = 18
    /\ SubSeq(result.val.ofX, 16, 18) # SubSeq(result.val.ofY, 16, 18)

\* C28: within one bucket, a record without an identifier of its own carries
\* the id row-<index>, index being its zero-based position in the bucket; no
\* two such records carry the same id, and none carries the id of a record
\* of the bucket that has an identifier of its own.
C28_SyntheticIdsApart ==
    Returned("bucket") =>
        LET bucket == result.val
            synthetic == {i \in 1..Len(bucket) : bucket[i].url = <<>>}
            real == {i \in 1..Len(bucket) : bucket[i].url # <<>>}
        IN  /\ \A i \in synthetic : bucket[i].id = placeholder(i - 1)
            /\ \A i \in synthetic : \A j \in synthetic \ {i} : bucket[i].id # bucket[j].id
            /\ \A i \in synthetic : \A j \in real : bucket[i].id # bucket[j].id

=============================================================================
